---------------------------- MODULE Spec2Model ----------------------------
(***************************************************************************)
(* A model of the resolution-drift detection core of the QA framework:     *)
(*   - Sanitizer (qa_framework/sanitizer.py)                               *)
(*   - SimilarityAnalyzer (qa_framework/similarity.py)                     *)
(*   - ConsensusCalculator (qa_framework/consensus.py)                     *)
(*                                                                         *)
(* Conventions.                                                            *)
(*   - A Python str that the code inspects character by character (a       *)
(*     template) is a sequence of one-character strings; a str that is     *)
(*     only compared (a hash, a label, a status) is a TLA+ string.         *)
(*   - A Python dict is a function whose DOMAIN is the set of keys         *)
(*     present.                                                            *)
(*   - Python's None is the value None below; it differs from every label  *)
(*     and from the empty string.                                          *)
(*   - A float that is a quotient of two integers is kept exact as a       *)
(*     fraction [num, den]; round(x, 3) gives a fraction with den = 1000.  *)
(***************************************************************************)
EXTENDS Integers, Sequences, FiniteSets, TLC

VARIABLES
    threshold,          \* SimilarityAnalyzer.threshold, a fraction [num, den]
    template_tokens,    \* SimilarityAnalyzer._template_tokens: hash -> token set
    template_raw,       \* SimilarityAnalyzer._template_raw: hash -> template
    hash_to_pattern,    \* SimilarityAnalyzer._hash_to_pattern: hash -> pattern_id
    pattern_to_hashes,  \* SimilarityAnalyzer._pattern_to_hashes: pattern_id -> set of hashes
    index_calls,        \* history: the <<hash, pattern_id>> pairs index_template was called with
    sim_call,           \* the last lookup on the index: its arguments and what it returned
    min_samples,        \* ConsensusCalculator.min_samples
    strong_threshold,   \* ConsensusCalculator.strong_threshold, in thousandths
    cons_call,          \* the last call on the calculator: its arguments and what it returned
    san_call,           \* the last call on the Sanitizer: its argument and what it returned
    executor,           \* QueryExecutor: the settings of query_defaults and concurrency_config
    mode,               \* run: the execution mode, "batch" or "iterative"
    cid_infos,          \* run: the CIDs to query
    task,               \* the coroutines that query: one per CID, or one for the batch
    semaphore,          \* run_iterative: the value of the asyncio.Semaphore
    run_call,           \* run: where it is and what it returned or raised
    pipe_pc,            \* run_qa_pipeline: the step it is at
    historical_alerts,  \* run_qa_pipeline: the historical alerts fetched
    daily_alerts,       \* run_qa_pipeline: the rows of the daily batch
    pipe_pos,           \* run_qa_pipeline: the alerts of the current loop already handled
    resolution_groups,  \* run_qa_pipeline: hash -> list of historical resolutions
    consensus_lookup,   \* run_qa_pipeline: hash -> consensus
    stats,              \* run_qa_pipeline: the counters of the analysis
    findings,           \* run_qa_pipeline: the findings recorded
    pipe_log            \* history: the calls run_qa_pipeline made on the similarity index

vars == <<threshold, template_tokens, template_raw, hash_to_pattern,
          pattern_to_hashes, index_calls, sim_call,
          min_samples, strong_threshold, cons_call, san_call,
          executor, mode, cid_infos, task, semaphore, run_call,
          pipe_pc, historical_alerts, daily_alerts, pipe_pos, resolution_groups,
          consensus_lookup, stats, findings, pipe_log>>

simVars == <<threshold, template_tokens, template_raw, hash_to_pattern,
             pattern_to_hashes, index_calls, sim_call>>

consVars == <<min_samples, strong_threshold, cons_call>>

sanVars == <<san_call>>

runVars == <<executor, mode, cid_infos, task, semaphore, run_call>>

pipeVars == <<pipe_pc, historical_alerts, daily_alerts, pipe_pos, resolution_groups,
              consensus_lookup, stats, findings, pipe_log>>

(***************************************************************************)
(* Bounds of the model.                                                    *)
(***************************************************************************)
\* find_similar is called with max_results in 0..MaxResults
MaxResults == 2

\* calculate_consensus is called with every list of up to MaxLen entries
MaxLen == 4

\* and with true_positive * a + false_positive * b for a <= MaxTP and b <= MaxFP
MaxTP == 56

MaxFP == 14

\* _wilson_interval is called with every 0 <= successes <= n <= MaxN
MaxN == 40

\* find_similar_batch is called with every list of up to MaxBatch queries
MaxBatch == 2

(***************************************************************************)
(* Python values.                                                          *)
(***************************************************************************)
None == "<None>"

NoCall == [op |-> "none"]

EmptyDict == [k \in {} |-> None]

\* d[k] = v on a dict
DictSet(d, k, v) == [x \in DOMAIN d \cup {k} |-> IF x = k THEN v ELSE d[x]]

\* d.get(k, default)
DictGet(d, k, default) == IF k \in DOMAIN d THEN d[k] ELSE default

\* a fraction num/den, den > 0
Frac(n, d) == [num |-> n, den |-> d]

\* a >= b; fractions over the same denominator are compared by their numerators
FracGE(a, b) ==
    IF a.den = b.den THEN a.num >= b.num ELSE a.num * b.den >= b.num * a.den

\* a = b as numbers
FracEq(a, b) ==
    IF a.den = b.den THEN a.num = b.num ELSE a.num * b.den = b.num * a.den

\* round(n/d, 3) in thousandths, for 0 <= n <= d and d > 0: the nearest
\* thousandth, a tie going to the even one (the ties n/d with d < 2000 are the
\* odd multiples of 1/16, which a float holds exactly). The quotient is taken
\* digit by digit so that no intermediate value leaves 32 bits.
Round3(n, d) ==
    LET q1 == (10 * n) \div d
        r1 == (10 * n) % d
        q2 == (10 * r1) \div d
        r2 == (10 * r1) % d
        q3 == (10 * r2) \div d
        r == (10 * r2) % d
        q == 100 * q1 + 10 * q2 + q3
    IN  IF 2 * r > d THEN q + 1
        ELSE IF 2 * r < d THEN q
        ELSE IF q % 2 = 0 THEN q ELSE q + 1

(***************************************************************************)
(* SimilarityAnalyzer                                                      *)
(***************************************************************************)
Hashes == {"h1", "h2", "h3"}

PatternIds == {50007, 50102}

\* the templates the model indexes and queries with
TplA == <<"a", "b", " ", "c", "d", " ", "e", "f">>

TplB == <<"A", "B", ":", "c", "d", "=", "e", "f", "/", "g", "h">>

TplC == <<"a", "b", "-", "x", ".">>

Templates == {TplA, TplB, TplC}

\* the templates of the specification with batches
BatchTemplates == {TplA, TplC}

\* the letters the long templates are spelled with
Alphabet == <<"a", "b", "c", "d", "e", "f">>

\* the k-th two-letter word over Alphabet, k >= 1: aa, ab, ..., af, ba, ...
Word(k) ==
    <<Alphabet[((k - 1) \div Len(Alphabet)) + 1], Alphabet[((k - 1) % Len(Alphabet)) + 1]>>

\* a template of n different words separated by single spaces: a long command
\* line
LongTemplate(n) ==
    [i \in 1..(3 * n - 1) |->
        IF i % 3 = 0 THEN " " ELSE Word(((i - 1) \div 3) + 1)[((i - 1) % 3) + 1]]

\* long templates that differ from each other in one or two words: 33, 34 and
\* 35 words, each a prefix of the next
LongTemplates == {LongTemplate(n) : n \in 33..35}

\* the one pattern_id under which the smaller specifications build the index
OnePatternId == {50007}

\* the threshold values an analyzer is constructed with; each is in (0, 1]
Thresholds == {Frac(1, 10), Frac(1, 3)}

UpperToLower ==
    [A |-> "a", B |-> "b", C |-> "c", D |-> "d", E |-> "e", F |-> "f",
     G |-> "g", H |-> "h", I |-> "i", J |-> "j", K |-> "k", L |-> "l",
     M |-> "m", N |-> "n", O |-> "o", P |-> "p", Q |-> "q", R |-> "r",
     S |-> "s", T |-> "t", U |-> "u", V |-> "v", W |-> "w", X |-> "x",
     Y |-> "y", Z |-> "z"]

\* str.lower() on one character
Lower(c) == IF c \in DOMAIN UpperToLower THEN UpperToLower[c] ELSE c

\* the character class [\s\\/\-\.\,\;\:\=] of the split in tokenize
IsDelimiter(c) == c \in {" ", "\t", "\n", "\r", "\f", "\\", "/", "-", ".", ",", ";", ":", "="}

\* re.split on runs of delimiters: a piece starts at a character that is not a
\* delimiter and that no such character precedes
PieceStarts(s) ==
    {i \in 1..Len(s) : ~IsDelimiter(s[i]) /\ (i = 1 \/ IsDelimiter(s[i - 1]))}

\* the position at which the piece that starts at i ends
PieceEnd(s, i) ==
    CHOOSE j \in i..Len(s) :
        /\ j = Len(s) \/ IsDelimiter(s[j + 1])
        /\ \A k \in i..j : ~IsDelimiter(s[k])

\* the non-empty pieces of re.split(..., template.lower())
Pieces(s) ==
    {[k \in 1..(PieceEnd(s, i) - i + 1) |-> Lower(s[i + k - 1])] : i \in PieceStarts(s)}

\* SimilarityAnalyzer.tokenize; the empty pieces re.split gives at the ends of
\* the string are dropped with the one-character ones
tokenize(template) == {t \in Pieces(template) : Len(t) > 1}

\* a similarity that divides by the size of the first set, not of the union
jaccard_similarity_OverFirst(set_a, set_b) ==
    IF set_a = {} \/ set_b = {} THEN Frac(0, 1)
    ELSE Frac(Cardinality(set_a \cap set_b), Cardinality(set_a))

\* SimilarityAnalyzer.jaccard_similarity, as a fraction
jaccard_similarity(set_a, set_b) ==
    IF set_a = {} \/ set_b = {} THEN Frac(0, 1)
    ELSE LET intersection == Cardinality(set_a \cap set_b)
             union == Cardinality(set_a \cup set_b)
         IN  IF union > 0 THEN Frac(intersection, union) ELSE Frac(0, 1)

\* SimilarityAnalyzer.index_count
index_count == Cardinality(DOMAIN template_tokens)

\* SimilarityAnalyzer.patterns_indexed
patterns_indexed == Cardinality(DOMAIN pattern_to_hashes)

\* the sequences that hold every element of S once: the orders in which
\* Python may iterate over the set S
Orders(S) == {f \in [1..Cardinality(S) -> S] : \A i, j \in 1..Cardinality(S) : f[i] = f[j] => i = j}

\* a find_similar that looks at every indexed hash, whatever its pattern_id
CandidateHashes_AnyPattern(pattern_id) == DOMAIN template_tokens

\* find_similar: the hashes looked at, those of the query's pattern_id only
CandidateHashes(pattern_id) == DictGet(pattern_to_hashes, pattern_id, {})

\* find_similar: the SimilarMatch built for other_hash
MakeMatch(query_tokens, other_hash, pattern_id) ==
    LET other_tokens == template_tokens[other_hash]
        similarity == jaccard_similarity(query_tokens, other_tokens)
    IN  [template_hash   |-> other_hash,
         template        |-> template_raw[other_hash],
         similarity      |-> Round3(similarity.num, similarity.den),
         shared_tokens   |-> query_tokens \cap other_tokens,
         unique_to_query |-> query_tokens \ other_tokens,
         unique_to_match |-> other_tokens \ query_tokens,
         pattern_id      |-> pattern_id]

\* a loop that appends a match only when the similarity exceeds the threshold
Qualifies_StrictlyAbove(template_hash, query_tokens, other_hash) ==
    /\ other_hash # template_hash
    /\ ~FracGE(threshold, jaccard_similarity(query_tokens, template_tokens[other_hash]))

\* find_similar: whether the loop appends a match for other_hash
Qualifies(template_hash, query_tokens, other_hash) ==
    /\ other_hash # template_hash
    /\ FracGE(jaccard_similarity(query_tokens, template_tokens[other_hash]), threshold)

RECURSIVE CollectCandidates(_, _, _, _, _)
\* find_similar: the loop over candidate_hashes, visited in the order `order`
CollectCandidates(order, i, template_hash, query_tokens, pattern_id) ==
    IF i > Len(order) THEN <<>>
    ELSE LET rest == CollectCandidates(order, i + 1, template_hash, query_tokens, pattern_id)
         IN  IF Qualifies(template_hash, query_tokens, order[i])
             THEN <<MakeMatch(query_tokens, order[i], pattern_id)>> \o rest
             ELSE rest

RECURSIVE InsertDesc_Ascending(_, _)
\* an insertion that sorts without reverse=True: smallest similarity first
InsertDesc_Ascending(sorted, m) ==
    IF sorted = <<>> THEN <<m>>
    ELSE IF Head(sorted).similarity <= m.similarity
         THEN <<Head(sorted)>> \o InsertDesc_Ascending(Tail(sorted), m)
         ELSE <<m>> \o sorted

RECURSIVE InsertDesc(_, _)
\* insert m after every element whose similarity is >= its own
InsertDesc(sorted, m) ==
    IF sorted = <<>> THEN <<m>>
    ELSE IF Head(sorted).similarity >= m.similarity
         THEN <<Head(sorted)>> \o InsertDesc(Tail(sorted), m)
         ELSE <<m>> \o sorted

RECURSIVE SortDesc(_, _)
\* candidates.sort(key=similarity, reverse=True): a stable sort
SortDesc(candidates, i) ==
    IF i = 0 THEN <<>>
    ELSE InsertDesc(SortDesc(candidates, i - 1), candidates[i])

\* candidates[:max_results] for max_results >= 0
Truncate(s, max_results) ==
    IF max_results >= Len(s) THEN s ELSE SubSeq(s, 1, max_results)

\* SimilarityAnalyzer.find_similar, the candidate set being iterated in `order`
find_similar(order, template_hash, template, pattern_id, max_results) ==
    LET query_tokens == tokenize(template)
        candidates == CollectCandidates(order, 1, template_hash, query_tokens, pattern_id)
    IN  Truncate(SortDesc(candidates, Len(candidates)), max_results)

\* the four maps of the analyzer as one value
Index ==
    [template_tokens   |-> template_tokens,
     template_raw      |-> template_raw,
     hash_to_pattern   |-> hash_to_pattern,
     pattern_to_hashes |-> pattern_to_hashes]

\* SimilarityAnalyzer.index_template: the maps after the call on the maps
\* `index`; the hash is added to the set of its pattern_id and removed from no
\* set
index_template(index, template_hash, template, pattern_id) ==
    [template_tokens   |-> DictSet(index.template_tokens, template_hash, tokenize(template)),
     template_raw      |-> DictSet(index.template_raw, template_hash, template),
     hash_to_pattern   |-> DictSet(index.hash_to_pattern, template_hash, pattern_id),
     pattern_to_hashes |->
         DictSet(index.pattern_to_hashes, pattern_id,
                 DictGet(index.pattern_to_hashes, pattern_id, {}) \cup {template_hash})]

\* a lookup that reads the reverse index as setdefault does: a pattern_id that
\* is not a key becomes one, with no hashes
ReverseIndexAfterGet_SetDefault(reverse_index, pattern_id) ==
    DictSet(reverse_index, pattern_id, DictGet(reverse_index, pattern_id, {}))

\* find_similar: the reverse index after _pattern_to_hashes.get(pattern_id,
\* set()); get inserts nothing
ReverseIndexAfterGet(reverse_index, pattern_id) == reverse_index

RECURSIVE ReverseIndexAfterBatch(_, _, _)
\* find_similar_batch: the reverse index after the lookups of the first i
\* queries
ReverseIndexAfterBatch(reverse_index, queries, i) ==
    IF i = 0 THEN reverse_index
    ELSE ReverseIndexAfterGet(ReverseIndexAfterBatch(reverse_index, queries, i - 1),
                              queries[i][3])

\* a batch that keeps the first result stored under a hash
BatchStore_KeepFirst(results, template_hash, matches) ==
    IF template_hash \in DOMAIN results THEN results
    ELSE DictSet(results, template_hash, matches)

\* find_similar_batch: results[template_hash] = ...
BatchStore(results, template_hash, matches) == DictSet(results, template_hash, matches)

RECURSIVE find_similar_batch(_, _, _, _)
\* SimilarityAnalyzer.find_similar_batch: the results after the first i
\* queries, each a tuple <<template_hash, template, pattern_id>>; the candidate
\* set of pattern_id p is iterated in the order orders[p] in every query of the
\* batch
find_similar_batch(orders, queries, i, max_results_per_query) ==
    IF i = 0 THEN EmptyDict
    ELSE BatchStore(find_similar_batch(orders, queries, i - 1, max_results_per_query),
                    queries[i][1],
                    find_similar(orders[queries[i][3]], queries[i][1], queries[i][2],
                                 queries[i][3], max_results_per_query))

(***************************************************************************)
(* ConsensusCalculator                                                     *)
(***************************************************************************)
Labels == {"true_positive", "false_positive", "ignored"}

\* what a resolution list may hold: a label, None or the empty string
Entries == Labels \cup {None, ""}

\* `if r` on a resolution
Truthy(r) == r # None /\ r # ""

\* the elements of a sequence
Range(seq) == {seq[i] : i \in DOMAIN seq}

\* the number of occurrences of x in seq
Count(seq, x) == Cardinality({i \in DOMAIN seq : seq[i] = x})

\* the position at which x first occurs in seq
FirstIndex(seq, x) == CHOOSE i \in DOMAIN seq : seq[i] = x /\ \A j \in 1..(i - 1) : seq[j] # x

\* Counter(valid_resolutions): label -> count; its keys are in order of first occurrence
Counter(seq) == [x \in Range(seq) |-> Count(seq, x)]

\* a most_common that keeps the last, not the first, of the keys whose count is
\* the largest
MostCommon_LastOfTies(seq) ==
    CHOOSE x \in Range(seq) :
        \A y \in Range(seq) :
            \/ Count(seq, x) > Count(seq, y)
            \/ Count(seq, x) = Count(seq, y) /\ FirstIndex(seq, x) >= FirstIndex(seq, y)

\* Counter.most_common(1)[0][0]: the first key, in order of first occurrence,
\* whose count is the largest
MostCommon(seq) ==
    CHOOSE x \in Range(seq) :
        \A y \in Range(seq) :
            \/ Count(seq, x) > Count(seq, y)
            \/ Count(seq, x) = Count(seq, y) /\ FirstIndex(seq, x) <= FirstIndex(seq, y)

(***************************************************************************)
(* _wilson_interval. The floats of the code are kept in fixed point with   *)
(* six decimals; the radicand needs twelve and is kept as a pair           *)
(* <<hi, lo>> standing for hi * 10^8 + lo. With p = successes / n, the     *)
(* code's center and spread are, after multiplying numerator and           *)
(* denominator by n,                                                       *)
(*     center = (successes + z^2/2) / (n + z^2)                            *)
(*     spread = z * sqrt(successes * (n - successes) / n + z^2/4)          *)
(*                / (n + z^2)                                              *)
(* z = norm.ppf(0.975) = 1.959963984540054. The fixed-point values are     *)
(* within 10^-6 of the floats, and for every n <= 150 they round to the    *)
(* same thousandths and fall on the same side of 0.70.                     *)
(***************************************************************************)
Base4 == 10 * 1000

Base8 == Base4 * Base4

Micro == 1000 * 1000

\* z * 10^6 = ZHi * 10^4 + ZLo
ZHi == 195

ZLo == 9964

\* z^2 * 10^6
ZSquared == 3841459

\* z^2 / 2 * 10^6
ZSquaredHalf == 1920729

\* z^2 / 4 * 10^12
ZSquaredQuarter == <<9603, 64705174>>

WideNorm(hi, lo) == <<hi + (lo \div Base8), lo % Base8>>

WideLE(x, y) == x[1] < y[1] \/ (x[1] = y[1] /\ x[2] <= y[2])

\* r * r for 0 <= r < 10^8
WideSquare(r) ==
    LET a == r \div Base4
        b == r % Base4
        m == 2 * a * b
    IN  WideNorm(a * a + (m \div Base4), (m % Base4) * Base4 + b * b)

RECURSIVE WideSqrt(_, _, _)
\* the largest r in lo..hi with r * r <= x
WideSqrt(x, lo, hi) ==
    IF lo >= hi THEN lo
    ELSE LET mid == (lo + hi + 1) \div 2
         IN  IF WideLE(WideSquare(mid), x) THEN WideSqrt(x, mid, hi)
             ELSE WideSqrt(x, lo, mid - 1)

\* (successes * (n - successes) / n + z^2/4) * 10^12
Radicand(successes, n) ==
    LET q1 == (successes * (n - successes) * Base4) \div n
        r1 == (successes * (n - successes) * Base4) % n
        q2 == (r1 * Base4) \div n
        r2 == (r1 * Base4) % n
        q3 == (r2 * Base4) \div n
    IN  WideNorm(q1 + ZSquaredQuarter[1], q2 * Base4 + q3 + ZSquaredQuarter[2])

\* z * sqrt(radicand) * 10^6
SpreadMicro(successes, n) ==
    LET root == WideSqrt(Radicand(successes, n), 0, 20 * Micro)
        a == root \div Base4
        b == root % Base4
    IN  ZHi * a * 100 + ((ZHi * b + ZLo * a) \div 100) + ((ZLo * b) \div Micro)

\* (successes + z^2/2) * 10^6
CenterMicro(successes, n) == successes * Micro + ZSquaredHalf

\* (n + z^2) * 10^6
DenomMicro(n) == n * Micro + ZSquared

Max(a, b) == IF a >= b THEN a ELSE b

Min(a, b) == IF a <= b THEN a ELSE b

\* a _wilson_interval whose bounds are exchanged
wilson_interval_Swapped(successes, n) ==
    IF n = 0 THEN [low |-> Frac(0, 1), high |-> Frac(0, 1)]
    ELSE [low  |-> Frac(Min(DenomMicro(n), CenterMicro(successes, n) + SpreadMicro(successes, n)),
                        DenomMicro(n)),
          high |-> Frac(Max(0, CenterMicro(successes, n) - SpreadMicro(successes, n)),
                        DenomMicro(n))]

\* ConsensusCalculator._wilson_interval(successes, n), confidence = 0.95
wilson_interval(successes, n) ==
    IF n = 0 THEN [low |-> Frac(0, 1), high |-> Frac(0, 1)]
    ELSE [low  |-> Frac(Max(0, CenterMicro(successes, n) - SpreadMicro(successes, n)),
                        DenomMicro(n)),
          high |-> Frac(Min(DenomMicro(n), CenterMicro(successes, n) + SpreadMicro(successes, n)),
                        DenomMicro(n))]

\* the floor of the interval's lower bound for a strong consensus: ci_low >= 0.70
StrongCiFloor == Frac(7, 10)

\* the floor of the ratio for a moderate consensus: ratio >= 0.80
ModerateRatioFloor == Frac(8, 10)

\* a classification that takes the values after they were rounded for the report
Strength_FromRounded(ratio, ci_low, strong) ==
    IF /\ FracGE(Frac(Round3(ratio.num, ratio.den), 1000), strong)
       /\ FracGE(Frac(Round3(ci_low.num, ci_low.den), 1000), StrongCiFloor)
    THEN "strong"
    ELSE IF FracGE(Frac(Round3(ratio.num, ratio.den), 1000), ModerateRatioFloor)
         THEN "moderate" ELSE "weak"

\* calculate_consensus: "Determine strength", from the ratio, the interval's
\* lower bound and strong_threshold, all as fractions
Strength(ratio, ci_low, strong) ==
    IF FracGE(ratio, strong) /\ FracGE(ci_low, StrongCiFloor) THEN "strong"
    ELSE IF FracGE(ratio, ModerateRatioFloor) THEN "moderate"
    ELSE "weak"

\* a filter that keeps the empty string
ValidResolutions_KeepEmpty(resolutions) == SelectSeq(resolutions, LAMBDA r : r # None)

\* calculate_consensus: valid_resolutions
ValidResolutions(resolutions) == SelectSeq(resolutions, Truthy)

\* a test that takes n = min_samples for insufficient too
Insufficient_Inclusive(n, min) == n <= min

\* calculate_consensus: `if n < self.min_samples`
Insufficient(n, min) == n < min

\* a ratio that is rounded in every status
ReportedRatio_AlwaysRounded(status, majority_count, n) ==
    Frac(Round3(majority_count, n), 1000)

\* calculate_consensus: the ratio put in the result; rounded in status consensus only
ReportedRatio(status, majority_count, n) ==
    IF status = "consensus" THEN Frac(Round3(majority_count, n), 1000)
    ELSE Frac(majority_count, n)

\* ConsensusCalculator.calculate_consensus with the calculator's parameters min and strong
calculate_consensus(resolutions, min, strong) ==
    LET valid_resolutions == ValidResolutions(resolutions)
        n == Len(valid_resolutions)
    IN  IF n = 0
        THEN [status              |-> "no_data",
              majority_resolution |-> None,
              ratio               |-> None,
              sample_size         |-> 0,
              strength            |-> None]
        ELSE LET counts == Counter(valid_resolutions)
                 majority_resolution == MostCommon(valid_resolutions)
                 majority_count == counts[majority_resolution]
             IN  IF Insufficient(n, min)
                 THEN [status              |-> "insufficient_data",
                       majority_resolution |-> majority_resolution,
                       ratio               |-> ReportedRatio("insufficient_data", majority_count, n),
                       sample_size         |-> n,
                       strength            |-> None]
                 ELSE LET ci == wilson_interval(majority_count, n)
                      IN  [status              |-> "consensus",
                           majority_resolution |-> majority_resolution,
                           ratio               |-> ReportedRatio("consensus", majority_count, n),
                           sample_size         |-> n,
                           strength            |-> Strength(Frac(majority_count, n), ci.low,
                                                            Frac(strong, 1000)),
                           confidence_interval |->
                               <<Frac(Round3(ci.low.num, ci.low.den), 1000),
                                 Frac(Round3(ci.high.num, ci.high.den), 1000)>>,
                           distribution        |-> counts]

\* a table in which the two high severities are exchanged
StrongSeverity_Swapped(historical, new_resolution) ==
    IF historical = "true_positive" /\ new_resolution = "false_positive"
    THEN [severity |-> "HIGH", reason |-> "fp_contradicts_strong_tp_consensus"]
    ELSE IF historical = "false_positive" /\ new_resolution = "true_positive"
    THEN [severity |-> "CRITICAL", reason |-> "tp_contradicts_strong_fp_consensus"]
    ELSE [severity |-> "LOW", reason |-> "other_contradiction"]

\* a table that reads an absent resolution as 'ignored'
StrongSeverity_AbsentAsIgnored(historical, new_resolution) ==
    IF historical = "true_positive" /\ new_resolution = "false_positive"
    THEN [severity |-> "CRITICAL", reason |-> "fp_contradicts_strong_tp_consensus"]
    ELSE IF historical = "false_positive" /\ new_resolution = "true_positive"
    THEN [severity |-> "HIGH", reason |-> "tp_contradicts_strong_fp_consensus"]
    ELSE IF historical = "true_positive" /\ new_resolution \in {"ignored", None, ""}
    THEN [severity |-> "MEDIUM", reason |-> "ignored_contradicts_strong_tp_consensus"]
    ELSE IF historical = "ignored" /\ new_resolution = "true_positive"
    THEN [severity |-> "LOW", reason |-> "tp_contradicts_ignored_consensus"]
    ELSE [severity |-> "LOW", reason |-> "other_contradiction"]

\* detect_contradiction: severity and reason of a contradiction of a strong
\* or moderate consensus
StrongSeverity(historical, new_resolution) ==
    IF historical = "true_positive" /\ new_resolution = "false_positive"
    THEN [severity |-> "CRITICAL", reason |-> "fp_contradicts_strong_tp_consensus"]
    ELSE IF historical = "false_positive" /\ new_resolution = "true_positive"
    THEN [severity |-> "HIGH", reason |-> "tp_contradicts_strong_fp_consensus"]
    ELSE IF historical = "true_positive" /\ new_resolution = "ignored"
    THEN [severity |-> "MEDIUM", reason |-> "ignored_contradicts_strong_tp_consensus"]
    ELSE IF historical = "ignored" /\ new_resolution = "true_positive"
    THEN [severity |-> "LOW", reason |-> "tp_contradicts_ignored_consensus"]
    ELSE [severity |-> "LOW", reason |-> "other_contradiction"]

\* a match test that lets an absent resolution match nothing
MatchesConsensus_NoneNeverMatches(new_resolution, historical) ==
    new_resolution = historical /\ new_resolution # None

\* detect_contradiction: `if new_resolution == historical`
MatchesConsensus(new_resolution, historical) == new_resolution = historical

\* a verdict for a record without consensus that reports every such record as novel
NonConsensusVerdict_AlwaysNovel(status) ==
    [is_contradiction |-> FALSE, severity |-> "INFO", reason |-> "novel_pattern"]

\* detect_contradiction: the verdict for a status other than 'consensus'
NonConsensusVerdict(status) ==
    IF status = "no_data"
    THEN [is_contradiction |-> FALSE, severity |-> "INFO", reason |-> "novel_pattern"]
    ELSE IF status = "insufficient_data"
    THEN [is_contradiction |-> FALSE, severity |-> "INFO",
          reason |-> "insufficient_historical_data"]
    ELSE [is_contradiction |-> FALSE, severity |-> "INFO", reason |-> status]

\* what a call gives when the code raises instead of returning
Raises(exception) == [raises |-> exception]

\* ConsensusCalculator.detect_contradiction
detect_contradiction(new_resolution, consensus) ==
    LET status == DictGet(consensus, "status", "no_data")
    IN  IF status # "consensus" THEN NonConsensusVerdict(status)
        ELSE IF "majority_resolution" \notin DOMAIN consensus
        THEN Raises("KeyError")    \* consensus['majority_resolution']
        ELSE LET historical == consensus["majority_resolution"]
                 strength == DictGet(consensus, "strength", "weak")
                 verdict == IF strength \in {"strong", "moderate"}
                            THEN StrongSeverity(historical, new_resolution)
                            ELSE [severity |-> "LOW", reason |-> "contradicts_weak_consensus"]
             IN  IF MatchesConsensus(new_resolution, historical)
                 THEN [is_contradiction |-> FALSE, severity |-> None,
                       reason |-> "matches_consensus"]
                 ELSE [is_contradiction      |-> TRUE,
                       severity              |-> verdict.severity,
                       reason                |-> verdict.reason,
                       new_resolution        |-> new_resolution,
                       historical_resolution |-> historical,
                       consensus_strength    |-> strength,
                       sample_size           |-> DictGet(consensus, "sample_size", 0),
                       historical_ratio      |-> DictGet(consensus, "ratio", None)]

(***************************************************************************)
(* The inputs of the calculator.                                           *)
(***************************************************************************)
\* the resolution lists of up to MaxLen entries, in every order
ShortLists == UNION {[1..len -> Entries] : len \in 0..MaxLen}

\* x repeated count times
Repeat(x, count) == [i \in 1..count |-> x]

\* the lists of the tests: a run of true_positive followed by a run of false_positive
BlockLists ==
    {Repeat("true_positive", a) \o Repeat("false_positive", b) : a \in 0..MaxTP, b \in 0..MaxFP}

\* values of min_samples; 20 is the default, 0 makes no list insufficient
MinSamplesValues == {0, 1, 3, 20}

\* values of strong_threshold, in thousandths; 0.90 is the default
StrongThresholdValues == {800, 900, 917}

\* a key that a consensus record does not hold
Absent == "<absent>"

StatusValues == {Absent, None, "no_data", "insufficient_data", "consensus", "unknown_status"}

MajorityValues == Labels \cup {Absent, None}

StrengthValues == {Absent, None, "strong", "moderate", "weak"}

\* whether the record holds ratio and sample_size
OptionalValues == {Absent, "present"}

\* a consensus record as a caller may pass it: any of its keys may be missing
ConsensusRecord(status, majority, strength, optional) ==
    LET keys == {k \in {"status", "majority_resolution", "strength", "ratio", "sample_size"} :
                    \/ k = "status" /\ status # Absent
                    \/ k = "majority_resolution" /\ majority # Absent
                    \/ k = "strength" /\ strength # Absent
                    \/ k \in {"ratio", "sample_size"} /\ optional # Absent}
    IN  [k \in keys |->
            CASE k = "status" -> status
              [] k = "majority_resolution" -> majority
              [] k = "strength" -> strength
              [] k = "ratio" -> Frac(850, 1000)
              [] k = "sample_size" -> 50]

(***************************************************************************)
(* Sanitizer. The texts are TLA+ strings; CharAt gives one character as a  *)
(* string of length one. A regular expression of the code is kept as a     *)
(* tree: Lit (a literal), Cls and NotCls (a character class and its        *)
(* complement), Cat, Alt, Rep (a greedy repetition), Bnd (\b) and Look (a  *)
(* lookahead). Ends gives the positions at which a match that starts at i  *)
(* can end, in the order in which the backtracking matcher of re tries     *)
(* them, so the first one is the end of the match re finds at i. Every     *)
(* rule is applied with re.IGNORECASE: characters are compared after       *)
(* lower-casing and the classes are written in lower case.                 *)
(***************************************************************************)
CharAt(s, i) == SubSeq(s, i, i)

Digits == {"0", "1", "2", "3", "4", "5", "6", "7", "8", "9"}

HexLetters == {"a", "b", "c", "d", "e", "f"}

Letters == {UpperToLower[c] : c \in DOMAIN UpperToLower}

\* \s for the ASCII characters
Whitespace == {" ", "\t", "\n", "\r", "\f"}

\* \w for the ASCII characters
WordChars == Letters \cup Digits \cup {"_"}

\* {m,} has no upper limit
Unbounded == 0 - 1

Lit(str) == [t |-> "lit", s |-> str]

Cls(chars) == [t |-> "cls", chars |-> chars, negated |-> FALSE]

NotCls(chars) == [t |-> "cls", chars |-> chars, negated |-> TRUE]

Cat(parts) == [t |-> "cat", parts |-> parts]

Alt(parts) == [t |-> "alt", parts |-> parts]

Rep(node, min, max) == [t |-> "rep", node |-> node, min |-> min, max |-> max]

Bnd == [t |-> "bnd"]

Look(node) == [t |-> "look", node |-> node]

\* the character c is in the class
InClass(node, c) == (Lower(c) \in node.chars) # node.negated

\* \b at position i: exactly one of the characters before and at i is a word
\* character
AtBoundary(s, i) ==
    (i > 1 /\ Lower(CharAt(s, i - 1)) \in WordChars)
        # (i <= Len(s) /\ Lower(CharAt(s, i)) \in WordChars)

\* the literal str is at position i of s, whatever the case of the letters
LiteralAt(str, s, i) ==
    /\ i + Len(str) - 1 <= Len(s)
    /\ \A k \in 1..Len(str) : Lower(CharAt(s, i + k - 1)) = Lower(CharAt(str, k))

\* the number of characters from position i on that are in the class, up to
\* max of them
RunLength(node, s, i, max) ==
    LET cap == IF max = Unbounded \/ max > Len(s) - i + 1 THEN Len(s) - i + 1 ELSE max
    IN  CHOOSE r \in 0..cap :
            /\ \A k \in 0..(r - 1) : InClass(node, CharAt(s, i + k))
            /\ r = cap \/ ~InClass(node, CharAt(s, i + r))

RECURSIVE Ends(_, _, _)
RECURSIVE CatEnds(_, _, _, _, _)
RECURSIVE AltEnds(_, _, _, _)
RECURSIVE RepEnds(_, _, _, _, _)

\* a sequence: each end of parts[k], in order, followed by the rest
CatEnds(parts, k, s, starts, j) ==
    IF j > Len(starts) THEN <<>>
    ELSE (IF k = Len(parts) THEN Ends(parts[k], s, starts[j])
          ELSE CatEnds(parts, k + 1, s, Ends(parts[k], s, starts[j]), 1))
         \o CatEnds(parts, k, s, starts, j + 1)

\* an alternation: the ends of the first alternative before those of the next
AltEnds(parts, k, s, i) ==
    IF k > Len(parts) THEN <<>>
    ELSE Ends(parts[k], s, i) \o AltEnds(parts, k + 1, s, i)

\* a greedy repetition of which `count` rounds are done and that may go on
\* from each of the positions starts[j..]: one more round is tried before
\* stopping
RepEnds(node, s, starts, j, count) ==
    IF j > Len(starts) THEN <<>>
    ELSE LET i == starts[j]
             more == IF node.max = Unbounded \/ count < node.max
                     THEN RepEnds(node, s,
                                  SelectSeq(Ends(node.node, s, i), LAMBDA e : e > i),
                                  1, count + 1)
                     ELSE <<>>
             stop == IF count >= node.min THEN <<i>> ELSE <<>>
         IN  more \o stop \o RepEnds(node, s, starts, j + 1, count)

Ends(node, s, i) ==
    CASE node.t = "lit" -> IF LiteralAt(node.s, s, i) THEN <<i + Len(node.s)>> ELSE <<>>
      [] node.t = "cls" ->
            IF i <= Len(s) /\ InClass(node, CharAt(s, i)) THEN <<i + 1>> ELSE <<>>
      [] node.t = "bnd" -> IF AtBoundary(s, i) THEN <<i>> ELSE <<>>
      [] node.t = "look" -> IF Ends(node.node, s, i) # <<>> THEN <<i>> ELSE <<>>
      [] node.t = "cat" -> CatEnds(node.parts, 1, s, <<i>>, 1)
      [] node.t = "alt" -> AltEnds(node.parts, 1, s, i)
      [] node.t = "rep" ->
            IF node.node.t = "cls"
            THEN LET r == RunLength(node.node, s, i, node.max)
                 IN  IF r < node.min THEN <<>>
                     ELSE [k \in 1..(r - node.min + 1) |-> i + r - k + 1]
            ELSE RepEnds(node, s, <<i>>, 1, 0)

\* the positions of s at which the pattern matches
MatchStarts(pattern, s) == {p \in 1..Len(s) : Ends(pattern, s, p) # <<>>}

\* what a match of the rule at position p of s is replaced with: the text of
\* group 1 (rule.keep, the start of the pattern) followed by the placeholder
Replacement(rule, s, p) ==
    SubSeq(s, p, Ends(rule.keep, s, p)[1] - 1) \o rule.replacement

RECURSIVE SubFrom(_, _, _, _)
\* re.sub from position pos on: the leftmost match is replaced and the search
\* goes on where that match ended; no pattern of the code matches the empty
\* string
SubFrom(rule, s, pos, starts) ==
    LET later == {p \in starts : p >= pos}
    IN  IF later = {} THEN SubSeq(s, pos, Len(s))
        ELSE LET p == CHOOSE p \in later : \A q \in later : p <= q
                 e == Ends(rule.pattern, s, p)[1]
             IN  SubSeq(s, pos, p - 1) \o Replacement(rule, s, p)
                     \o SubFrom(rule, s, e, starts)

\* re.sub(pattern, replacement, s, flags=re.IGNORECASE)
re_sub(rule, s) == SubFrom(rule, s, 1, MatchStarts(rule.pattern, s))

\* a rule without a group in its replacement
Rule(pattern, replacement) ==
    [pattern |-> pattern, keep |-> Lit(""), replacement |-> replacement]

\* Sanitizer.WELL_KNOWN_SIDS, in the order of the dict
WELL_KNOWN_SIDS ==
    << <<"S-1-1-0", "<Everyone>">>,
       <<"S-1-5-2", "<Network>">>,
       <<"S-1-5-3", "<Batch>">>,
       <<"S-1-5-4", "<Interactive>">>,
       <<"S-1-5-6", "<Service>">>,
       <<"S-1-5-7", "<Anonymous>">>,
       <<"S-1-5-11", "<AuthenticatedUsers>">>,
       <<"S-1-5-113", "<LocalAccount>">>,
       <<"S-1-5-114", "<LocalAccountAndAdministrator>">>,
       <<"S-1-5-18", "<LocalSystem>">>,
       <<"S-1-5-19", "<LocalService>">>,
       <<"S-1-5-20", "<NetworkService>">>,
       <<"S-1-5-32-544", "<Administrators>">>,
       <<"S-1-5-32-545", "<Users>">>,
       <<"S-1-5-32-546", "<Guests>">>,
       <<"S-1-5-32-547", "<PowerUsers>">>,
       <<"S-1-5-32-548", "<AccountOperators>">>,
       <<"S-1-5-32-549", "<ServerOperators>">>,
       <<"S-1-5-32-550", "<PrintOperators>">>,
       <<"S-1-5-32-551", "<BackupOperators>">> >>

Digit == Cls(Digits)

HexDigit == Cls(Digits \cup HexLetters)

Letter == Cls(Letters)

AlphaNumeric == Cls(Letters \cup Digits)

\* [^\s"\']
NotSpaceOrQuote == NotCls(Whitespace \cup {"\"", "'"})

\* Sanitizer.SANITIZATION_RULES, in the order of the list
SANITIZATION_RULES ==
    << \* IPv4 address: \b\d{1,3}\.\d{1,3}\.\d{1,3}\.\d{1,3}\b
       Rule(Cat(<<Bnd, Rep(Digit, 1, 3), Lit("."), Rep(Digit, 1, 3), Lit("."),
                  Rep(Digit, 1, 3), Lit("."), Rep(Digit, 1, 3), Bnd>>),
            "<IP>"),
       \* IPv6 address: \b(?:[0-9a-fA-F]{1,4}:){7}[0-9a-fA-F]{1,4}\b
       Rule(Cat(<<Bnd, Rep(Cat(<<Rep(HexDigit, 1, 4), Lit(":")>>), 7, 7),
                  Rep(HexDigit, 1, 4), Bnd>>),
            "<IP>"),
       \* GUID: \{?[a-fA-F0-9]{8}(?:-[a-fA-F0-9]{4}){3}-[a-fA-F0-9]{12}\}?
       Rule(Cat(<<Rep(Lit("{"), 0, 1), Rep(HexDigit, 8, 8),
                  Rep(Cat(<<Lit("-"), Rep(HexDigit, 4, 4)>>), 3, 3),
                  Lit("-"), Rep(HexDigit, 12, 12), Rep(Lit("}"), 0, 1)>>),
            "<GUID>"),
       \* Windows temp path:
       \* [Cc]:\\(?:Users\\[^\\]+\\AppData\\Local\\Temp|Windows\\Temp|Temp)\\[^\s"\']+
       Rule(Cat(<<Cls({"c"}), Lit(":\\"),
                  Alt(<<Cat(<<Lit("Users\\"), Rep(NotCls({"\\"}), 1, Unbounded),
                              Lit("\\AppData\\Local\\Temp")>>),
                        Lit("Windows\\Temp"),
                        Lit("Temp")>>),
                  Lit("\\"), Rep(NotSpaceOrQuote, 1, Unbounded)>>),
            "<TEMP>"),
       \* Linux temp path: /(?:tmp|var/tmp)/[^\s"\']+
       Rule(Cat(<<Lit("/"), Alt(<<Lit("tmp"), Lit("var/tmp")>>), Lit("/"),
                  Rep(NotSpaceOrQuote, 1, Unbounded)>>),
            "<TEMP>"),
       \* URL hostname: (https?://)([a-zA-Z0-9][-a-zA-Z0-9]*\.)+[a-zA-Z]{2,}
       \* replaced with \1<HOST>
       [pattern |->
            Cat(<<Lit("http"), Rep(Lit("s"), 0, 1), Lit("://"),
                  Rep(Cat(<<AlphaNumeric,
                            Rep(Cls(Letters \cup Digits \cup {"-"}), 0, Unbounded),
                            Lit(".")>>), 1, Unbounded),
                  Rep(Letter, 2, Unbounded)>>),
        keep |-> Cat(<<Lit("http"), Rep(Lit("s"), 0, 1), Lit("://")>>),
        replacement |-> "<HOST>"],
       \* ISO timestamp:
       \* \b\d{4}[-/]\d{2}[-/]\d{2}[T\s]\d{2}:\d{2}:\d{2}(?:\.\d+)?(?:Z|[+-]\d{2}:?\d{2})?\b
       Rule(Cat(<<Bnd, Rep(Digit, 4, 4), Cls({"-", "/"}), Rep(Digit, 2, 2),
                  Cls({"-", "/"}), Rep(Digit, 2, 2), Cls({"t"} \cup Whitespace),
                  Rep(Digit, 2, 2), Lit(":"), Rep(Digit, 2, 2), Lit(":"),
                  Rep(Digit, 2, 2),
                  Rep(Cat(<<Lit("."), Rep(Digit, 1, Unbounded)>>), 0, 1),
                  Rep(Alt(<<Lit("Z"),
                            Cat(<<Cls({"+", "-"}), Rep(Digit, 2, 2),
                                  Rep(Lit(":"), 0, 1), Rep(Digit, 2, 2)>>)>>), 0, 1),
                  Bnd>>),
            "<TIME>"),
       \* Unix timestamp: \b1[0-9]{9,12}\b
       Rule(Cat(<<Bnd, Lit("1"), Rep(Digit, 9, 12), Bnd>>), "<TIME>"),
       \* Base64 data: \b[A-Za-z0-9+/]{20,}={0,2}\b
       Rule(Cat(<<Bnd, Rep(Cls(Letters \cup Digits \cup {"+", "/"}), 20, Unbounded),
                  Rep(Lit("="), 0, 2), Bnd>>),
            "<DATA>"),
       \* long hex string: \b[0-9a-fA-F]{32,}\b
       Rule(Cat(<<Bnd, Rep(HexDigit, 32, Unbounded), Bnd>>), "<HEX>"),
       \* domain SID: S-1-5-21-\d+-\d+-\d+(?:-\d+)?
       Rule(Cat(<<Lit("S-1-5-21-"), Rep(Digit, 1, Unbounded), Lit("-"),
                  Rep(Digit, 1, Unbounded), Lit("-"), Rep(Digit, 1, Unbounded),
                  Rep(Cat(<<Lit("-"), Rep(Digit, 1, Unbounded)>>), 0, 1)>>),
            "<SID>"),
       \* process id: \bpid[:\s]+\d+\b
       Rule(Cat(<<Bnd, Lit("pid"), Rep(Cls({":"} \cup Whitespace), 1, Unbounded),
                  Rep(Digit, 1, Unbounded), Bnd>>),
            "<PID>"),
       \* random alphanumeric string:
       \* \b(?=[A-Za-z]*\d)(?=\d*[A-Za-z])[A-Za-z0-9]{12,}\b
       Rule(Cat(<<Bnd, Look(Cat(<<Rep(Letter, 0, Unbounded), Digit>>)),
                  Look(Cat(<<Rep(Digit, 0, Unbounded), Letter>>)),
                  Rep(AlphaNumeric, 12, Unbounded), Bnd>>),
            "<RAND>") >>

RECURSIVE replace_well_known_sids(_, _)
\* Sanitizer._replace_well_known_sids: the text after the first k entries of
\* the table; the pattern of an entry is \b + re.escape(sid) + \b
replace_well_known_sids(text, k) ==
    IF k = 0 THEN text
    ELSE LET result == replace_well_known_sids(text, k - 1)
         IN  IF result = "" THEN ""
             ELSE re_sub(Rule(Cat(<<Bnd, Lit(WELL_KNOWN_SIDS[k][1]), Bnd>>),
                              WELL_KNOWN_SIDS[k][2]),
                         result)

RECURSIVE ApplyRules_Reversed(_, _, _)
\* a loop that goes through the rules from the last to the first
ApplyRules_Reversed(rules, first, k) ==
    IF k = 0 THEN <<first>>
    ELSE LET before == ApplyRules_Reversed(rules, first, k - 1)
         IN  IF before[Len(before)] = "" THEN Append(before, "")
             ELSE Append(before, re_sub(rules[Len(rules) - k + 1], before[Len(before)]))

RECURSIVE ApplyRules(_, _, _)
\* sanitize: the loop over the rules; the result is `first` followed by the
\* text after each of the first k rules, every rule working on the text the
\* rule before it left (no rule matches in an empty text)
ApplyRules(rules, first, k) ==
    IF k = 0 THEN <<first>>
    ELSE LET before == ApplyRules(rules, first, k - 1)
         IN  IF before[Len(before)] = "" THEN Append(before, "")
             ELSE Append(before, re_sub(rules[k], before[Len(before)]))

\* str.split(): a word starts at a character that is not whitespace and that
\* no such character precedes
WordStarts(s) ==
    {i \in 1..Len(s) : /\ CharAt(s, i) \notin Whitespace
                       /\ (i = 1 \/ CharAt(s, i - 1) \in Whitespace)}

\* the position at which the word that starts at i ends
WordEnd(s, i) ==
    CHOOSE j \in i..Len(s) :
        /\ j = Len(s) \/ CharAt(s, j + 1) \in Whitespace
        /\ \A k \in i..j : CharAt(s, k) \notin Whitespace

RECURSIVE JoinWords(_, _)
\* ' '.join(s.split()), for the words that start at the positions `starts`
JoinWords(s, starts) ==
    IF starts = {} THEN ""
    ELSE LET i == CHOOSE i \in starts : \A j \in starts : i <= j
             rest == starts \ {i}
         IN  SubSeq(s, i, WordEnd(s, i))
                 \o (IF rest = {} THEN "" ELSE " " \o JoinWords(s, rest))

\* the values of an alert are kept with their Python type
PyNone == [type |-> "NoneType"]

PyStr(s) == [type |-> "str", v |-> s]

PyInt(n) == [type |-> "int", v |-> n]

PyDict(d) == [type |-> "dict", v |-> d]

\* bool(x)
PyTruthy(x) ==
    CASE x.type = "NoneType" -> FALSE
      [] x.type = "str" -> x.v # ""
      [] x.type = "int" -> x.v # 0
      [] x.type = "dict" -> DOMAIN x.v # {}

RECURSIVE IntToStr(_)
\* str(n) for an int n >= 0
IntToStr(n) ==
    LET digit == CharAt("0123456789", (n % 10) + 1)
    IN  IF n < 10 THEN digit ELSE IntToStr(n \div 10) \o digit

\* str(x)
PyToStr(x) ==
    CASE x.type = "NoneType" -> "None"
      [] x.type = "str" -> x.v
      [] x.type = "int" -> IntToStr(x.v)

\* sanitize: the text after the well-known SIDs and after each rule
SanitizeSteps(text) ==
    ApplyRules(SANITIZATION_RULES,
               replace_well_known_sids(text, Len(WELL_KNOWN_SIDS)),
               Len(SANITIZATION_RULES))

\* Sanitizer.sanitize
sanitize(text) ==
    IF ~PyTruthy(text) THEN ""
    ELSE LET steps == SanitizeSteps(text.v)
             result == steps[Len(steps)]
         IN  JoinWords(result, WordStarts(result))

\* a template that leaves out the segments of the fields without text
generate_template_NoBareLabels(alert) ==
    LET pattern_id == PyToStr(DictGet(alert, "pattern_id", PyInt(0)))
        cmdline == sanitize(DictGet(alert, "cmdline", PyStr("")))
        parent_details == DictGet(alert, "parent_details", PyDict(EmptyDict))
        parent_filename == IF PyTruthy(parent_details)
                           THEN DictGet(parent_details.v, "filename", PyStr(""))
                           ELSE PyStr("")
        filename == DictGet(alert, "filename", PyStr(""))
    IN  ("pattern:" \o pattern_id)
            \o (IF cmdline # "" THEN "|cmd:" \o cmdline ELSE "")
            \o (IF PyTruthy(filename) THEN "|file:" \o PyToStr(filename) ELSE "")
            \o (IF PyTruthy(parent_filename)
                THEN "|parent:" \o PyToStr(parent_filename) ELSE "")

\* Sanitizer.generate_template
generate_template(alert) ==
    LET pattern_id == PyToStr(DictGet(alert, "pattern_id", PyInt(0)))
        cmdline == sanitize(DictGet(alert, "cmdline", PyStr("")))
        parent_details == DictGet(alert, "parent_details", PyDict(EmptyDict))
        parent_filename == IF PyTruthy(parent_details)
                           THEN DictGet(parent_details.v, "filename", PyStr(""))
                           ELSE PyStr("")
        filename == DictGet(alert, "filename", PyStr(""))
    IN  ("pattern:" \o pattern_id)
            \o "|" \o (IF cmdline # "" THEN "cmd:" \o cmdline ELSE "cmd:")
            \o "|" \o (IF PyTruthy(filename) THEN "file:" \o PyToStr(filename) ELSE "file:")
            \o "|" \o (IF PyTruthy(parent_filename)
                       THEN "parent:" \o PyToStr(parent_filename) ELSE "parent:")

\* Sanitizer.hash_template: the SHA-256 digest of the UTF-8 bytes of the
\* template, kept as the digest function applied to the template
hash_template(template) == <<"sha256", template>>

\* SimilarityAnalyzer.__init__: the threshold is in (0, 1] and the maps are empty
InitIndex ==
    /\ threshold \in Thresholds
    /\ template_tokens = EmptyDict
    /\ template_raw = EmptyDict
    /\ hash_to_pattern = EmptyDict
    /\ pattern_to_hashes = EmptyDict
    /\ index_calls = {}
    /\ sim_call = NoCall
    /\ min_samples = 20
    /\ strong_threshold = 900
    /\ cons_call = NoCall
    /\ san_call = NoCall
    /\ executor = [poll_interval_seconds |-> 1, timeout_seconds |-> 1,
                   max_concurrent_queries |-> 1, retry_attempts |-> 0]
    /\ mode = "iterative"
    /\ cid_infos = <<>>
    /\ task = <<>>
    /\ semaphore = 1
    /\ run_call = NoCall
    /\ pipe_pc = "idle"
    /\ historical_alerts = <<>>
    /\ daily_alerts = <<>>
    /\ pipe_pos = 0
    /\ resolution_groups = EmptyDict
    /\ consensus_lookup = EmptyDict
    /\ stats = EmptyDict
    /\ findings = <<>>
    /\ pipe_log = <<>>

\* SimilarityAnalyzer.index_template
IndexTemplate(template_hash, template, pattern_id) ==
    /\ sim_call = NoCall
    /\ LET after == index_template(Index, template_hash, template, pattern_id)
       IN  /\ template_tokens' = after.template_tokens
           /\ template_raw' = after.template_raw
           /\ hash_to_pattern' = after.hash_to_pattern
           /\ pattern_to_hashes' = after.pattern_to_hashes
    /\ index_calls' = index_calls \cup {<<template_hash, pattern_id>>}
    /\ UNCHANGED <<threshold, sim_call>>
    /\ UNCHANGED consVars
    /\ UNCHANGED sanVars
    /\ UNCHANGED runVars
    /\ UNCHANGED pipeVars

\* a call of find_similar; the maps are read with [] and get, never written
FindSimilar(template_hash, template, pattern_id, max_results) ==
    /\ sim_call = NoCall
    /\ \E order \in Orders(CandidateHashes(pattern_id)) :
           sim_call' = [op            |-> "find_similar",
                        template_hash |-> template_hash,
                        template      |-> template,
                        pattern_id    |-> pattern_id,
                        max_results   |-> max_results,
                        ret           |-> find_similar(order, template_hash, template,
                                                       pattern_id, max_results)]
    /\ pattern_to_hashes' = ReverseIndexAfterGet(pattern_to_hashes, pattern_id)
    /\ UNCHANGED <<threshold, template_tokens, template_raw, hash_to_pattern, index_calls>>
    /\ UNCHANGED consVars
    /\ UNCHANGED sanVars
    /\ UNCHANGED runVars
    /\ UNCHANGED pipeVars

\* a call of find_similar_batch
FindSimilarBatch(queries, max_results_per_query) ==
    /\ sim_call = NoCall
    /\ \E orders \in [PatternIds -> UNION {Orders(CandidateHashes(p)) : p \in PatternIds}] :
           /\ \A p \in PatternIds : orders[p] \in Orders(CandidateHashes(p))
           /\ sim_call' = [op                    |-> "find_similar_batch",
                           queries               |-> queries,
                           max_results_per_query |-> max_results_per_query,
                           orders                |-> orders,
                           ret                   |-> find_similar_batch(orders, queries,
                                                                        Len(queries),
                                                                        max_results_per_query)]
    /\ pattern_to_hashes' = ReverseIndexAfterBatch(pattern_to_hashes, queries, Len(queries))
    /\ UNCHANGED <<threshold, template_tokens, template_raw, hash_to_pattern, index_calls>>
    /\ UNCHANGED consVars
    /\ UNCHANGED sanVars
    /\ UNCHANGED runVars
    /\ UNCHANGED pipeVars

\* the caller is done with the result of the last lookup
SimReturn ==
    /\ sim_call # NoCall
    /\ sim_call' = NoCall
    /\ UNCHANGED <<threshold, template_tokens, template_raw, hash_to_pattern,
                   pattern_to_hashes, index_calls>>
    /\ UNCHANGED consVars
    /\ UNCHANGED sanVars
    /\ UNCHANGED runVars
    /\ UNCHANGED pipeVars

\* ConsensusCalculator.__init__; the index is not used
InitConsensus ==
    /\ min_samples \in MinSamplesValues
    /\ strong_threshold \in StrongThresholdValues
    /\ cons_call = NoCall
    /\ san_call = NoCall
    /\ threshold = Frac(7, 10)
    /\ template_tokens = EmptyDict
    /\ template_raw = EmptyDict
    /\ hash_to_pattern = EmptyDict
    /\ pattern_to_hashes = EmptyDict
    /\ index_calls = {}
    /\ sim_call = NoCall
    /\ executor = [poll_interval_seconds |-> 1, timeout_seconds |-> 1,
                   max_concurrent_queries |-> 1, retry_attempts |-> 0]
    /\ mode = "iterative"
    /\ cid_infos = <<>>
    /\ task = <<>>
    /\ semaphore = 1
    /\ run_call = NoCall
    /\ pipe_pc = "idle"
    /\ historical_alerts = <<>>
    /\ daily_alerts = <<>>
    /\ pipe_pos = 0
    /\ resolution_groups = EmptyDict
    /\ consensus_lookup = EmptyDict
    /\ stats = EmptyDict
    /\ findings = <<>>
    /\ pipe_log = <<>>

\* a call of calculate_consensus on a new calculator
CalculateConsensus(resolutions) ==
    /\ cons_call = NoCall
    /\ cons_call' = [op          |-> "calculate_consensus",
                     resolutions |-> resolutions,
                     ret         |-> calculate_consensus(resolutions, min_samples,
                                                         strong_threshold)]
    /\ UNCHANGED <<min_samples, strong_threshold>>
    /\ UNCHANGED simVars
    /\ UNCHANGED sanVars
    /\ UNCHANGED runVars
    /\ UNCHANGED pipeVars

\* a call of _wilson_interval on a new calculator
WilsonInterval(successes, n) ==
    /\ cons_call = NoCall
    /\ cons_call' = [op        |-> "_wilson_interval",
                     successes |-> successes,
                     n         |-> n,
                     ret       |-> wilson_interval(successes, n)]
    /\ UNCHANGED <<min_samples, strong_threshold>>
    /\ UNCHANGED simVars
    /\ UNCHANGED sanVars
    /\ UNCHANGED runVars
    /\ UNCHANGED pipeVars

\* a call of detect_contradiction on a new calculator
DetectContradiction(new_resolution, consensus) ==
    /\ cons_call = NoCall
    /\ cons_call' = [op             |-> "detect_contradiction",
                     new_resolution |-> new_resolution,
                     consensus      |-> consensus,
                     ret            |-> detect_contradiction(new_resolution, consensus)]
    /\ UNCHANGED <<min_samples, strong_threshold>>
    /\ UNCHANGED simVars
    /\ UNCHANGED sanVars
    /\ UNCHANGED runVars
    /\ UNCHANGED pipeVars

NextConsensus ==
    \/ \E resolutions \in ShortLists \cup BlockLists : CalculateConsensus(resolutions)
    \/ \E n \in 0..MaxN : \E successes \in 0..n : WilsonInterval(successes, n)

SpecConsensus == InitConsensus /\ [][NextConsensus]_vars

\* a ConsensusCalculator with the default parameters; the index is not used
InitContradiction ==
    /\ min_samples = 20
    /\ strong_threshold = 900
    /\ cons_call = NoCall
    /\ san_call = NoCall
    /\ threshold = Frac(7, 10)
    /\ template_tokens = EmptyDict
    /\ template_raw = EmptyDict
    /\ hash_to_pattern = EmptyDict
    /\ pattern_to_hashes = EmptyDict
    /\ index_calls = {}
    /\ sim_call = NoCall
    /\ executor = [poll_interval_seconds |-> 1, timeout_seconds |-> 1,
                   max_concurrent_queries |-> 1, retry_attempts |-> 0]
    /\ mode = "iterative"
    /\ cid_infos = <<>>
    /\ task = <<>>
    /\ semaphore = 1
    /\ run_call = NoCall
    /\ pipe_pc = "idle"
    /\ historical_alerts = <<>>
    /\ daily_alerts = <<>>
    /\ pipe_pos = 0
    /\ resolution_groups = EmptyDict
    /\ consensus_lookup = EmptyDict
    /\ stats = EmptyDict
    /\ findings = <<>>
    /\ pipe_log = <<>>

NextContradiction ==
    \E x \in Entries, st \in StatusValues, mj \in MajorityValues,
       sg \in StrengthValues, opt \in OptionalValues :
        DetectContradiction(x, ConsensusRecord(st, mj, sg, opt))

SpecContradiction == InitContradiction /\ [][NextContradiction]_vars

NextIndex ==
    \/ \E h \in Hashes, t \in Templates, p \in PatternIds : IndexTemplate(h, t, p)
    \/ \E h \in Hashes, t \in Templates, p \in PatternIds, k \in 0..MaxResults :
           FindSimilar(h, t, p, k)
    \/ SimReturn

SpecIndex == InitIndex /\ [][NextIndex]_vars

\* an analyzer with the default threshold that indexes long command lines and
\* is queried with them
InitRanking ==
    /\ threshold = Frac(7, 10)
    /\ template_tokens = EmptyDict
    /\ template_raw = EmptyDict
    /\ hash_to_pattern = EmptyDict
    /\ pattern_to_hashes = EmptyDict
    /\ index_calls = {}
    /\ sim_call = NoCall
    /\ min_samples = 20
    /\ strong_threshold = 900
    /\ cons_call = NoCall
    /\ san_call = NoCall
    /\ executor = [poll_interval_seconds |-> 1, timeout_seconds |-> 1,
                   max_concurrent_queries |-> 1, retry_attempts |-> 0]
    /\ mode = "iterative"
    /\ cid_infos = <<>>
    /\ task = <<>>
    /\ semaphore = 1
    /\ run_call = NoCall
    /\ pipe_pc = "idle"
    /\ historical_alerts = <<>>
    /\ daily_alerts = <<>>
    /\ pipe_pos = 0
    /\ resolution_groups = EmptyDict
    /\ consensus_lookup = EmptyDict
    /\ stats = EmptyDict
    /\ findings = <<>>
    /\ pipe_log = <<>>

NextRanking ==
    \/ \E h \in Hashes, t \in LongTemplates, p \in OnePatternId : IndexTemplate(h, t, p)
    \/ \E h \in Hashes, t \in LongTemplates, p \in OnePatternId, k \in 0..MaxResults :
           FindSimilar(h, t, p, k)
    \/ SimReturn

SpecRanking == InitRanking /\ [][NextRanking]_vars

\* the sets jaccard_similarity is called with: every set of tokens of TplB
TokenSets == SUBSET tokenize(TplB)

\* a call of the static method jaccard_similarity
JaccardSimilarity(set_a, set_b) ==
    /\ sim_call = NoCall
    /\ sim_call' = [op    |-> "jaccard_similarity",
                    set_a |-> set_a,
                    set_b |-> set_b,
                    ret   |-> jaccard_similarity(set_a, set_b)]
    /\ UNCHANGED <<threshold, template_tokens, template_raw, hash_to_pattern,
                   pattern_to_hashes, index_calls>>
    /\ UNCHANGED consVars
    /\ UNCHANGED sanVars
    /\ UNCHANGED runVars
    /\ UNCHANGED pipeVars

\* jaccard_similarity is static: the analyzer it is called on does not matter
InitJaccard ==
    /\ threshold = Frac(7, 10)
    /\ template_tokens = EmptyDict
    /\ template_raw = EmptyDict
    /\ hash_to_pattern = EmptyDict
    /\ pattern_to_hashes = EmptyDict
    /\ index_calls = {}
    /\ sim_call = NoCall
    /\ min_samples = 20
    /\ strong_threshold = 900
    /\ cons_call = NoCall
    /\ san_call = NoCall
    /\ executor = [poll_interval_seconds |-> 1, timeout_seconds |-> 1,
                   max_concurrent_queries |-> 1, retry_attempts |-> 0]
    /\ mode = "iterative"
    /\ cid_infos = <<>>
    /\ task = <<>>
    /\ semaphore = 1
    /\ run_call = NoCall
    /\ pipe_pc = "idle"
    /\ historical_alerts = <<>>
    /\ daily_alerts = <<>>
    /\ pipe_pos = 0
    /\ resolution_groups = EmptyDict
    /\ consensus_lookup = EmptyDict
    /\ stats = EmptyDict
    /\ findings = <<>>
    /\ pipe_log = <<>>

NextJaccard ==
    \/ \E set_a \in TokenSets, set_b \in TokenSets : JaccardSimilarity(set_a, set_b)
    \/ SimReturn

SpecJaccard == InitJaccard /\ [][NextJaccard]_vars

\* the queries of a batch: tuples (template_hash, template, pattern_id)
BatchQueries == Hashes \X BatchTemplates \X PatternIds

\* the lists of at most MaxBatch queries
QueryLists == UNION {[1..len -> BatchQueries] : len \in 0..MaxBatch}

\* an analyzer that is built under one pattern_id and queried, one query at a
\* time and in batches, under every pattern_id
InitBatch ==
    /\ threshold = Frac(1, 3)
    /\ template_tokens = EmptyDict
    /\ template_raw = EmptyDict
    /\ hash_to_pattern = EmptyDict
    /\ pattern_to_hashes = EmptyDict
    /\ index_calls = {}
    /\ sim_call = NoCall
    /\ min_samples = 20
    /\ strong_threshold = 900
    /\ cons_call = NoCall
    /\ san_call = NoCall
    /\ executor = [poll_interval_seconds |-> 1, timeout_seconds |-> 1,
                   max_concurrent_queries |-> 1, retry_attempts |-> 0]
    /\ mode = "iterative"
    /\ cid_infos = <<>>
    /\ task = <<>>
    /\ semaphore = 1
    /\ run_call = NoCall
    /\ pipe_pc = "idle"
    /\ historical_alerts = <<>>
    /\ daily_alerts = <<>>
    /\ pipe_pos = 0
    /\ resolution_groups = EmptyDict
    /\ consensus_lookup = EmptyDict
    /\ stats = EmptyDict
    /\ findings = <<>>
    /\ pipe_log = <<>>

NextBatch ==
    \/ \E h \in Hashes, t \in BatchTemplates, p \in OnePatternId : IndexTemplate(h, t, p)
    \/ \E h \in Hashes, t \in BatchTemplates, p \in PatternIds, k \in 0..MaxResults :
           FindSimilar(h, t, p, k)
    \/ \E queries \in QueryLists : FindSimilarBatch(queries, MaxResults)
    \/ SimReturn

SpecBatch == InitBatch /\ [][NextBatch]_vars

\* a key that an alert does not have
PyAbsent == [type |-> "absent"]

\* the values of the field 'pattern_id' of an alert
PatternIdValues == {PyAbsent, PyInt(50007)}

\* the values of the field 'cmdline'
CmdlineValues ==
    {PyAbsent, PyNone, PyStr(""), PyStr("   "), PyStr("ping 10.0.0.1"),
     PyStr("ping  10.0.0.2")}

\* the values of the field 'filename'
FilenameValues == {PyAbsent, PyNone, PyStr(""), PyStr("10.0.0.1.exe")}

\* the values of the field 'parent_details'
ParentDetailsValues ==
    {PyAbsent, PyNone, PyDict(EmptyDict),
     PyDict([k \in {"filename"} |-> PyStr("")]),
     PyDict([k \in {"filename", "cmdline"} |-> PyStr("/tmp/cmd.exe")])}

\* the alert dict with the given fields, without the keys that are absent
MakeAlert(pattern_id, cmdline, filename, parent_details) ==
    LET all == [k \in {"pattern_id", "cmdline", "filename", "parent_details"} |->
                   CASE k = "pattern_id" -> pattern_id
                     [] k = "cmdline" -> cmdline
                     [] k = "filename" -> filename
                     [] k = "parent_details" -> parent_details]
    IN  [k \in {key \in DOMAIN all : all[key] # PyAbsent} |-> all[k]]

\* the alerts generate_template is called with
Alerts ==
    {MakeAlert(p, c, f, d) : p \in PatternIdValues, c \in CmdlineValues,
                             f \in FilenameValues, d \in ParentDetailsValues}

\* texts with each well-known SID as a token of its own
SidTexts ==
    {PyStr("x " \o WELL_KNOWN_SIDS[k][1] \o " y") : k \in 1..Len(WELL_KNOWN_SIDS)}

\* texts for the rules, for runs two rules match, for whitespace, and the
\* values without text
RuleTexts ==
    {PyNone, PyStr(""), PyStr(" a  b\t c "),
     PyStr("ping 10.0.0.1"), PyStr("fe80:0:0:0:1:2:3:4"),
     PyStr("{12345678-1234-1234-1234-123456789abc}"),
     PyStr("C:\\Windows\\Temp\\a.exe"), PyStr("/tmp/x.sh"),
     PyStr("curl https://evil.example.com/p"),
     PyStr("2024-01-01T00:00:00Z"), PyStr("1700000000"),
     PyStr("QUJDREVGR0hJSktMTU5PUFFSU1RVVg=="),
     PyStr("d41d8cd98f00b204e9800998ecf8427e"),
     PyStr("hash: d41d8cd98f00b204e9800998ecf8427e"),
     PyStr("D41D8CD98F00B204E9800998ECF8427E00"),
     PyStr("Ac08g8ad1E715e70c5a9"),
     PyStr("S-1-5-21-1-2-3-500"),
     PyStr("S-1-5-21-1234567890-987654321-1122334455-1001"),
     PyStr("pid: 42"), PyStr("abc123def456")}

\* the texts sanitize is called with
Texts == SidTexts \cup RuleTexts

\* the templates hash_template is called with
AlertTemplates ==
    {generate_template(MakeAlert(PyInt(50007), c, PyStr(""), PyNone)) : c \in CmdlineValues}

\* the Sanitizer has class attributes only: no call is under way
InitSanitizer ==
    /\ threshold = Frac(7, 10)
    /\ template_tokens = EmptyDict
    /\ template_raw = EmptyDict
    /\ hash_to_pattern = EmptyDict
    /\ pattern_to_hashes = EmptyDict
    /\ index_calls = {}
    /\ sim_call = NoCall
    /\ min_samples = 20
    /\ strong_threshold = 900
    /\ cons_call = NoCall
    /\ san_call = NoCall
    /\ executor = [poll_interval_seconds |-> 1, timeout_seconds |-> 1,
                   max_concurrent_queries |-> 1, retry_attempts |-> 0]
    /\ mode = "iterative"
    /\ cid_infos = <<>>
    /\ task = <<>>
    /\ semaphore = 1
    /\ run_call = NoCall
    /\ pipe_pc = "idle"
    /\ historical_alerts = <<>>
    /\ daily_alerts = <<>>
    /\ pipe_pos = 0
    /\ resolution_groups = EmptyDict
    /\ consensus_lookup = EmptyDict
    /\ stats = EmptyDict
    /\ findings = <<>>
    /\ pipe_log = <<>>

\* Sanitizer.sanitize; steps are the values `result` takes: after the
\* well-known SIDs and after each rule
Sanitize(text) ==
    /\ san_call = NoCall
    /\ san_call' = [op    |-> "sanitize",
                    text  |-> text,
                    steps |-> IF PyTruthy(text) THEN SanitizeSteps(text.v) ELSE <<>>,
                    ret   |-> sanitize(text)]
    /\ UNCHANGED simVars
    /\ UNCHANGED consVars
    /\ UNCHANGED runVars
    /\ UNCHANGED pipeVars

\* Sanitizer.generate_template
GenerateTemplate(alert) ==
    /\ san_call = NoCall
    /\ san_call' = [op    |-> "generate_template",
                    alert |-> alert,
                    ret   |-> generate_template(alert)]
    /\ UNCHANGED simVars
    /\ UNCHANGED consVars
    /\ UNCHANGED runVars
    /\ UNCHANGED pipeVars

\* Sanitizer.hash_template
HashTemplate(template) ==
    /\ san_call = NoCall
    /\ san_call' = [op       |-> "hash_template",
                    template |-> template,
                    ret      |-> hash_template(template)]
    /\ UNCHANGED simVars
    /\ UNCHANGED consVars
    /\ UNCHANGED runVars
    /\ UNCHANGED pipeVars

\* the call returns
SanReturn ==
    /\ san_call # NoCall
    /\ san_call' = NoCall
    /\ UNCHANGED simVars
    /\ UNCHANGED consVars
    /\ UNCHANGED runVars
    /\ UNCHANGED pipeVars

NextSanitizer ==
    \/ \E text \in Texts : Sanitize(text)
    \/ \E alert \in Alerts : GenerateTemplate(alert)
    \/ \E template \in AlertTemplates : HashTemplate(template)
    \/ SanReturn

SpecSanitizer == InitSanitizer /\ [][NextSanitizer]_vars

(***************************************************************************)
(* Arbitrary Queries: QueryExecutor, execute_query, poll_until_complete    *)
(* (query_executor.py) and run (runner.py).  Every coroutine that queries  *)
(* is a task; a task moves at the awaits of the code, and what the API     *)
(* answers and how long an await takes are chosen freely.  Time is in      *)
(* seconds.                                                                *)
(***************************************************************************)
\* the largest number of CIDs of a run
MaxCids == 3

\* the largest retry_attempts
MaxRetry == 1

\* the largest timeout_seconds
MaxTimeout == 2

\* the largest max_concurrent_queries
MaxConcurrent == 2

\* the CIDs of the registry
Cids == <<"cid1", "cid2", "cid3", "cid4">>

\* the fields of the dataclass QueryResult
QueryResultFields == {"cid", "cid_name", "events", "record_count"}

\* QueryResult(**kwargs): a keyword that is not a field of the dataclass is a
\* TypeError, a record_count that is not len(events) a ValueError
QueryResult(kwargs) ==
    IF ~(DOMAIN kwargs \subseteq QueryResultFields) THEN Raises("TypeError")
    ELSE IF kwargs.record_count # Len(kwargs.events) THEN Raises("ValueError")
    ELSE kwargs

\* the call raised
IsRaised(outcome) == "raises" \in DOMAIN outcome

\* what execute_query and run_batch build from the events of a finished query
SuccessResult(cid, cid_name, events) ==
    QueryResult([cid |-> cid, cid_name |-> cid_name, events |-> events,
                 record_count |-> Len(events), execution_time_seconds |-> "elapsed"])

\* _create_error_result
create_error_result(cid, error) ==
    QueryResult([cid |-> cid, cid_name |-> cid, events |-> <<>>, record_count |-> 0,
                 error |-> error, execution_time_seconds |-> "elapsed"])

\* the errors execute_query catches
Retried == {"QuerySubmissionError", "QueryStatusError", "QueryTimeoutError"}

\* what client.submit_query does: it returns a job id or raises
SubmitResponses == {"job", "QuerySubmissionError", "AuthenticationError"}

\* what client.get_query_status does: it returns a status, with 'done' and
\* 'events', or raises
StatusResponses ==
    {[done |-> FALSE, events |-> <<>>], [done |-> TRUE, events |-> <<>>],
     [done |-> TRUE, events |-> <<"event">>], Raises("QueryStatusError")}

\* a task that has not started: outside execute_query it waits for the
\* semaphore; submits, polls and cancels count the calls on the client, the
\* last two since the last poll_until_complete began, and got is what the
\* current attempt came to: the status poll_until_complete returned or the
\* exception the attempt raised
NewTask(cid, pc) ==
    [cid |-> cid, pc |-> pc, attempt |-> 0, elapsed |-> 0, submits |-> 0,
     polls |-> 0, cancels |-> 0, got |-> NoCall, last_error |-> None,
     outcome |-> NoCall]

\* the task ends: execute_query or run_batch returns or raises
Finish(t, outcome) == [t EXCEPT !.pc = "done", !.outcome = outcome]

\* an exception in an attempt of the task t. run_batch catches nothing;
\* execute_query catches the three errors, keeps the last one, and either
\* sleeps before the next attempt or leaves the loop and returns the error
\* result
OnError(t, error) ==
    LET raised == [t EXCEPT !.got = Raises(error)]
    IN  IF mode = "batch" \/ error \notin Retried THEN Finish(raised, Raises(error))
        ELSE IF t.attempt < executor.retry_attempts
             THEN [raised EXCEPT !.pc = "retry_sleep", !.last_error = error]
             ELSE Finish([raised EXCEPT !.last_error = error],
                         create_error_result(t.cid, error))

\* the task is inside execute_query or run_batch
InProgress(t) ==
    t.pc \in {"submit", "poll_check", "status", "poll_sleep", "cancel", "retry_sleep"}

\* OverallSummary(...), with the check of __post_init__
OverallSummary(total_cids, successful_cids, failed_cids) ==
    IF successful_cids + failed_cids # total_cids THEN Raises("ValueError")
    ELSE [total_cids |-> total_cids, successful_cids |-> successful_cids,
          failed_cids |-> failed_cids, mode |-> mode]

\* _build_summaries and the end of run: the results are counted by
\* result.has_error, an attribute the dataclass QueryResult does not have
RunSummary(results) ==
    IF Len(results) > 0 THEN Raises("AttributeError")
    ELSE OverallSummary(Len(cid_infos), 0, 0)

\* the event loop runs the tasks
LoopRuns == run_call.op \in {"executing", "raised", "returned"}

\* the value of the semaphore after the task i became t: leaving the block
\* 'async with semaphore' releases it
Released(t) == IF mode = "iterative" /\ t.pc = "done" THEN semaphore + 1 ELSE semaphore

\* run, or run_iterative called on its own, begins: run returns a summary of
\* zeros when there is no CID; otherwise the batch is one task and
\* run_iterative makes a task per CID, all waiting for the semaphore
RunStart ==
    /\ run_call.op = "start"
    /\ IF run_call.entry = "run" /\ cid_infos = <<>>
       THEN /\ run_call' = [op |-> "returned", entry |-> "run",
                            ret |-> OverallSummary(0, 0, 0)]
            /\ UNCHANGED <<task, semaphore>>
       ELSE /\ run_call' = [op |-> "executing", entry |-> run_call.entry]
            /\ task' = IF mode = "batch"
                       THEN <<NewTask("batch", "submit")>>
                       ELSE [i \in 1..Len(cid_infos) |-> NewTask(cid_infos[i], "acquire")]
            /\ semaphore' = executor.max_concurrent_queries
    /\ UNCHANGED <<executor, mode, cid_infos>>
    /\ UNCHANGED simVars
    /\ UNCHANGED consVars
    /\ UNCHANGED sanVars
    /\ UNCHANGED pipeVars

\* 'async with semaphore': the task that waits longest enters execute_query
\* when the semaphore is positive
Acquire(i) ==
    /\ LoopRuns
    /\ task[i].pc = "acquire"
    /\ semaphore > 0
    /\ \A j \in 1..(i - 1) : task[j].pc # "acquire"
    /\ task' = [task EXCEPT ![i].pc = "submit"]
    /\ semaphore' = semaphore - 1
    /\ UNCHANGED <<executor, mode, cid_infos, run_call>>
    /\ UNCHANGED simVars
    /\ UNCHANGED consVars
    /\ UNCHANGED sanVars
    /\ UNCHANGED pipeVars

\* an attempt begins: client.submit_query; with a job id the task goes on to
\* poll_until_complete
SubmitQuery(i, response) ==
    /\ LoopRuns
    /\ task[i].pc = "submit"
    /\ LET t == [task[i] EXCEPT !.submits = @ + 1]
           after == IF response = "job"
                    THEN [t EXCEPT !.pc = "poll_check", !.elapsed = 0,
                                   !.polls = 0, !.cancels = 0, !.got = NoCall]
                    ELSE OnError(t, response)
       IN  /\ task' = [task EXCEPT ![i] = after]
           /\ semaphore' = Released(after)
    /\ UNCHANGED <<executor, mode, cid_infos, run_call>>
    /\ UNCHANGED simVars
    /\ UNCHANGED consVars
    /\ UNCHANGED sanVars
    /\ UNCHANGED pipeVars

\* a head of the loop that gives up when the timeout is reached
PollCheck_AtTimeout(i) ==
    /\ LoopRuns
    /\ task[i].pc = "poll_check"
    /\ task' = [task EXCEPT ![i].pc = IF task[i].elapsed >= executor.timeout_seconds
                                      THEN "cancel" ELSE "status"]
    /\ UNCHANGED <<executor, mode, cid_infos, semaphore, run_call>>
    /\ UNCHANGED simVars
    /\ UNCHANGED consVars
    /\ UNCHANGED sanVars
    /\ UNCHANGED pipeVars

\* poll_until_complete, the head of the loop: past the timeout the query is
\* cancelled, otherwise its status is asked for
PollCheck(i) ==
    /\ LoopRuns
    /\ task[i].pc = "poll_check"
    /\ task' = [task EXCEPT ![i].pc = IF task[i].elapsed > executor.timeout_seconds
                                      THEN "cancel" ELSE "status"]
    /\ UNCHANGED <<executor, mode, cid_infos, semaphore, run_call>>
    /\ UNCHANGED simVars
    /\ UNCHANGED consVars
    /\ UNCHANGED sanVars
    /\ UNCHANGED pipeVars

\* poll_until_complete: client.get_query_status answers after `seconds`; a
\* status that is done ends the attempt and the task builds its result
GetQueryStatus(i, response, seconds) ==
    /\ LoopRuns
    /\ task[i].pc = "status"
    /\ LET t == [task[i] EXCEPT !.polls = @ + 1, !.elapsed = @ + seconds]
           after == IF IsRaised(response) THEN OnError(t, response.raises)
                    ELSE IF response.done
                    THEN Finish([t EXCEPT !.got = response],
                                SuccessResult(t.cid, t.cid, response.events))
                    ELSE [t EXCEPT !.pc = "poll_sleep"]
       IN  /\ task' = [task EXCEPT ![i] = after]
           /\ semaphore' = Released(after)
    /\ UNCHANGED <<executor, mode, cid_infos, run_call>>
    /\ UNCHANGED simVars
    /\ UNCHANGED consVars
    /\ UNCHANGED sanVars
    /\ UNCHANGED pipeVars

\* poll_until_complete: asyncio.sleep(poll_interval)
PollSleep(i) ==
    /\ LoopRuns
    /\ task[i].pc = "poll_sleep"
    /\ task' = [task EXCEPT ![i].pc = "poll_check",
                             ![i].elapsed = @ + executor.poll_interval_seconds]
    /\ UNCHANGED <<executor, mode, cid_infos, semaphore, run_call>>
    /\ UNCHANGED simVars
    /\ UNCHANGED consVars
    /\ UNCHANGED sanVars
    /\ UNCHANGED pipeVars

\* poll_until_complete past the timeout: client.cancel_query, whose failure
\* is logged, and then QueryTimeoutError
CancelQuery(i, cancelled) ==
    /\ LoopRuns
    /\ task[i].pc = "cancel"
    /\ LET after == OnError([task[i] EXCEPT !.cancels = @ + 1], "QueryTimeoutError")
       IN  /\ task' = [task EXCEPT ![i] = after]
           /\ semaphore' = Released(after)
    /\ UNCHANGED <<executor, mode, cid_infos, run_call>>
    /\ UNCHANGED simVars
    /\ UNCHANGED consVars
    /\ UNCHANGED sanVars
    /\ UNCHANGED pipeVars

\* execute_query: asyncio.sleep(retry_delay), then the next attempt, which
\* has called nothing yet
RetrySleep(i) ==
    /\ LoopRuns
    /\ task[i].pc = "retry_sleep"
    /\ task' = [task EXCEPT ![i].pc = "submit", ![i].attempt = @ + 1,
                            ![i].elapsed = 0, ![i].polls = 0, ![i].cancels = 0,
                            ![i].got = NoCall]
    /\ UNCHANGED <<executor, mode, cid_infos, semaphore, run_call>>
    /\ UNCHANGED simVars
    /\ UNCHANGED consVars
    /\ UNCHANGED sanVars
    /\ UNCHANGED pipeVars

\* the tasks that raised
RaisedTasks == {i \in DOMAIN task : task[i].pc = "done" /\ IsRaised(task[i].outcome)}

\* asyncio.gather(*tasks, return_exceptions=False), or the await of
\* run_batch, and what follows it in run: an exception of a task goes to the
\* caller at once and leaves the other tasks running; when every task has
\* returned, run_iterative returns the results in the order of the CIDs and
\* run builds its summary
Gather ==
    /\ run_call.op = "executing"
    /\ \/ /\ RaisedTasks # {}
          /\ \E i \in RaisedTasks :
                 run_call' = [op |-> "raised", entry |-> run_call.entry,
                              ret |-> task[i].outcome]
       \/ /\ \A i \in DOMAIN task : task[i].pc = "done" /\ ~IsRaised(task[i].outcome)
          /\ LET results == [i \in DOMAIN task |-> task[i].outcome]
                 ret == IF run_call.entry = "run" THEN RunSummary(results) ELSE results
             IN  run_call' = [op |-> IF IsRaised(ret) THEN "raised" ELSE "returned",
                              entry |-> run_call.entry, ret |-> ret]
    /\ UNCHANGED <<executor, mode, cid_infos, task, semaphore>>
    /\ UNCHANGED simVars
    /\ UNCHANGED consVars
    /\ UNCHANGED sanVars
    /\ UNCHANGED pipeVars

\* asyncio.run ends after run returned or raised: the tasks that are not
\* done are cancelled
LoopClose ==
    /\ run_call.op \in {"raised", "returned"}
    /\ run_call' = [run_call EXCEPT !.op = "closed"]
    /\ task' = [i \in DOMAIN task |->
                   IF task[i].pc = "done" THEN task[i]
                   ELSE [task[i] EXCEPT !.pc = "cancelled"]]
    /\ UNCHANGED <<executor, mode, cid_infos, semaphore>>
    /\ UNCHANGED simVars
    /\ UNCHANGED consVars
    /\ UNCHANGED sanVars
    /\ UNCHANGED pipeVars

\* how long client.get_query_status takes
StatusSeconds == {0, 1}

\* the largest poll_interval_seconds
MaxInterval == 2

\* one call of execute_query, as run_iterative makes it for a single CID
InitExecute ==
    /\ threshold = Frac(7, 10)
    /\ template_tokens = EmptyDict
    /\ template_raw = EmptyDict
    /\ hash_to_pattern = EmptyDict
    /\ pattern_to_hashes = EmptyDict
    /\ index_calls = {}
    /\ sim_call = NoCall
    /\ min_samples = 20
    /\ strong_threshold = 900
    /\ cons_call = NoCall
    /\ san_call = NoCall
    /\ executor \in [poll_interval_seconds : 1..MaxInterval,
                     timeout_seconds : 1..MaxTimeout,
                     max_concurrent_queries : {1}, retry_attempts : 0..MaxRetry]
    /\ mode = "iterative"
    /\ cid_infos = SubSeq(Cids, 1, 1)
    /\ task = <<>>
    /\ semaphore = 1
    /\ run_call = [op |-> "start", entry |-> "run_iterative"]
    /\ pipe_pc = "idle"
    /\ historical_alerts = <<>>
    /\ daily_alerts = <<>>
    /\ pipe_pos = 0
    /\ resolution_groups = EmptyDict
    /\ consensus_lookup = EmptyDict
    /\ stats = EmptyDict
    /\ findings = <<>>
    /\ pipe_log = <<>>

\* run in either mode, and run_iterative on its own, for up to MaxCids CIDs
InitRun ==
    /\ threshold = Frac(7, 10)
    /\ template_tokens = EmptyDict
    /\ template_raw = EmptyDict
    /\ hash_to_pattern = EmptyDict
    /\ pattern_to_hashes = EmptyDict
    /\ index_calls = {}
    /\ sim_call = NoCall
    /\ min_samples = 20
    /\ strong_threshold = 900
    /\ cons_call = NoCall
    /\ san_call = NoCall
    /\ executor \in [poll_interval_seconds : {MaxInterval}, timeout_seconds : {1},
                     max_concurrent_queries : 1..MaxConcurrent,
                     retry_attempts : 0..MaxRetry]
    /\ mode \in {"batch", "iterative"}
    /\ cid_infos \in {SubSeq(Cids, 1, n) : n \in 0..MaxCids}
    /\ task = <<>>
    /\ semaphore = executor.max_concurrent_queries
    /\ run_call \in {[op |-> "start", entry |-> entry] :
                         entry \in IF mode = "batch" THEN {"run"}
                                   ELSE {"run", "run_iterative"}}
    /\ pipe_pc = "idle"
    /\ historical_alerts = <<>>
    /\ daily_alerts = <<>>
    /\ pipe_pos = 0
    /\ resolution_groups = EmptyDict
    /\ consensus_lookup = EmptyDict
    /\ stats = EmptyDict
    /\ findings = <<>>
    /\ pipe_log = <<>>

NextRun ==
    \/ RunStart
    \/ \E i \in DOMAIN task : Acquire(i)
    \/ \E i \in DOMAIN task, response \in SubmitResponses : SubmitQuery(i, response)
    \/ \E i \in DOMAIN task : PollCheck(i)
    \/ \E i \in DOMAIN task, response \in StatusResponses, seconds \in StatusSeconds :
           GetQueryStatus(i, response, seconds)
    \/ \E i \in DOMAIN task : PollSleep(i)
    \/ \E i \in DOMAIN task, cancelled \in BOOLEAN : CancelQuery(i, cancelled)
    \/ \E i \in DOMAIN task : RetrySleep(i)
    \/ Gather
    \/ LoopClose

SpecExecute == InitExecute /\ [][NextRun]_vars

SpecRun == InitRun /\ [][NextRun]_vars

\* the steps of the task of the i-th CID
TaskStep(i) ==
    /\ i \in DOMAIN task
    /\ \/ Acquire(i)
       \/ \E response \in SubmitResponses : SubmitQuery(i, response)
       \/ PollCheck(i)
       \/ \E response \in StatusResponses, seconds \in StatusSeconds :
              GetQueryStatus(i, response, seconds)
       \/ PollSleep(i)
       \/ \E cancelled \in BOOLEAN : CancelQuery(i, cancelled)
       \/ RetrySleep(i)

\* the event loop runs every task that can take a step, the client answers
\* every call, and asyncio.run closes the loop once run is over
SpecRunLive ==
    /\ SpecRun
    /\ \A i \in 1..MaxCids : WF_vars(TaskStep(i))
    /\ WF_vars(RunStart)
    /\ WF_vars(Gather)
    /\ WF_vars(LoopClose)

(***************************************************************************)
(* run_qa_pipeline: the consensus baseline and the similarity index are    *)
(* built from the historical alerts, then the alerts of the day are        *)
(* analysed against them.                                                  *)
(***************************************************************************)
\* the largest number of alerts of a day
MaxDaily == 2

\* an alert with the resolution the analyst gave it; PyAbsent leaves the key out
WithResolution(alert, resolution) ==
    IF resolution = PyAbsent THEN alert
    ELSE [k \in DOMAIN alert \cup {"resolution"} |->
             IF k = "resolution" THEN resolution ELSE alert[k]]

\* the alerts of the pattern 50007 whose command lines differ in the address
\* only, one that has a parent process as well, and one without pattern_id
PingAlert == MakeAlert(PyInt(50007), PyStr("ping 10.0.0.1"), PyAbsent, PyAbsent)
PingAlert2 == MakeAlert(PyInt(50007), PyStr("ping  10.0.0.2"), PyAbsent, PyAbsent)
PingChildAlert ==
    MakeAlert(PyInt(50007), PyStr("ping 10.0.0.1"), PyAbsent,
              PyDict([filename |-> PyStr("cmd.exe")]))
UnpatternedAlert == MakeAlert(PyAbsent, PyStr("ping 10.0.0.1"), PyAbsent, PyAbsent)

\* the resolutions of the alerts of the pipeline
ResolutionValues ==
    {PyAbsent, PyNone, PyStr(""), PyStr("true_positive"), PyStr("false_positive"),
     PyStr("ignored")}

PipelineAlerts ==
    {WithResolution(alert, resolution) :
        alert \in {PingAlert, PingAlert2, PingChildAlert, UnpatternedAlert},
        resolution \in ResolutionValues}

\* Sanitizer.generate_template on the alerts of the pipeline, computed once
PipelineTemplate == [alert \in PipelineAlerts |-> generate_template(alert)]

\* the alert together with its template: Step 3 stores the template in the
\* row of an alert of the day, and the loop of Step 5 computes it from the
\* historical alert in the same way
Templated(alert) ==
    [k \in DOMAIN alert \cup {"template"} |->
        IF k = "template" THEN PyStr(PipelineTemplate[alert]) ELSE alert[k]]

\* the template of the alert
TemplateOf(alert) == alert["template"].v

\* a Python string as the sequence of its characters, which the tokenizer reads
Chars(s) == [i \in 1..Len(s) |-> SubSeq(s, i, i)]

\* `alert.get(key) is None`
AlertIsNone(alert, key) == DictGet(alert, key, PyNone) = PyNone

\* alert.get(key) for the keys resolution and pattern_id: the value, None
\* when the key is absent or holds None
AlertGet(alert, key) ==
    LET value == DictGet(alert, key, PyNone)
    IN  IF value = PyNone THEN None ELSE value.v

\* the historical alerts: true positives, then false positives, then the
\* alerts in `others`
Historical(tp, fp, others) ==
    Repeat(Templated(WithResolution(PingAlert, PyStr("true_positive"))), tp)
        \o Repeat(Templated(WithResolution(PingAlert2, PyStr("false_positive"))), fp)
        \o others

\* numbers of true and false positives in the history: none, one short of
\* min_sample_size, a strong, a moderate and a weak consensus for
\* true_positive, and a strong one for false_positive
HistoryCounts == {<<0, 0>>, <<19, 0>>, <<20, 0>>, <<16, 4>>, <<12, 8>>, <<0, 20>>}

\* historical alerts without pattern_id or without resolution
HistoryOthers ==
    {<<>>,
     <<Templated(WithResolution(UnpatternedAlert, PyStr("true_positive"))),
       Templated(WithResolution(PingChildAlert, PyNone))>>}

\* the alerts of the day, at most MaxDaily
DailyKinds ==
    {Templated(WithResolution(PingAlert, resolution)) :
        resolution \in ResolutionValues \ {PyAbsent}}
        \cup {Templated(WithResolution(PingChildAlert, PyStr("true_positive"))),
              Templated(WithResolution(UnpatternedAlert, PyStr("false_positive")))}
DailyLists == UNION {[1..len -> DailyKinds] : len \in 0..MaxDaily}

\* the historical loop of Step 5 on one alert, on the resolution groups
GroupStep(groups, alert) ==
    LET template_hash == hash_template(TemplateOf(alert))
        resolution == AlertGet(alert, "resolution")
        old == DictGet(groups, template_hash, <<>>)
    IN  IF AlertIsNone(alert, "pattern_id") THEN groups
        ELSE DictSet(groups, template_hash,
                     IF Truthy(resolution) THEN Append(old, resolution) ELSE old)

\* a loop that indexes the alerts without pattern_id as well, under the
\* pattern_id 0 of their template
IndexStep_NoSkip(index, alert) ==
    index_template(index, hash_template(TemplateOf(alert)),
                   Chars(TemplateOf(alert)),
                   IF AlertIsNone(alert, "pattern_id") THEN 0
                   ELSE AlertGet(alert, "pattern_id"))

\* the historical loop of Step 5 on one alert, on the maps of the analyzer
IndexStep(index, alert) ==
    IF AlertIsNone(alert, "pattern_id") THEN index
    ELSE index_template(index, hash_template(TemplateOf(alert)),
                        Chars(TemplateOf(alert)), AlertGet(alert, "pattern_id"))

Severities == {"CRITICAL", "HIGH", "MEDIUM", "LOW", "INFO"}

\* the stats before the analysis loop
InitialStats(total_processed) ==
    [total_processed   |-> total_processed,
     matches_consensus |-> 0,
     contradictions    |-> 0,
     novel_patterns    |-> 0,
     insufficient_data |-> 0,
     by_severity       |-> [s \in Severities |-> 0]]

\* a count that takes no record without consensus for a novel pattern
CountVerdict_NovelUncounted(counts, result) ==
    IF result.is_contradiction THEN [counts EXCEPT !.contradictions = @ + 1]
    ELSE IF result.reason = "matches_consensus"
    THEN [counts EXCEPT !.matches_consensus = @ + 1]
    ELSE IF result.reason = "insufficient_historical_data"
    THEN [counts EXCEPT !.insufficient_data = @ + 1]
    ELSE counts

\* the analysis loop: the four outcome counters after one verdict
CountVerdict(counts, result) ==
    IF result.is_contradiction THEN [counts EXCEPT !.contradictions = @ + 1]
    ELSE IF result.reason = "matches_consensus"
    THEN [counts EXCEPT !.matches_consensus = @ + 1]
    ELSE IF result.reason \in {"novel_pattern", "no_data"}
    THEN [counts EXCEPT !.novel_patterns = @ + 1]
    ELSE IF result.reason = "insufficient_historical_data"
    THEN [counts EXCEPT !.insufficient_data = @ + 1]
    ELSE counts

\* the analysis loop: by_severity after one verdict; None is not counted
CountSeverity(counts, result) ==
    IF result.severity # None /\ result.severity # ""
    THEN [counts EXCEPT !.by_severity =
             DictSet(@, result.severity, DictGet(@, result.severity, 0) + 1)]
    ELSE counts

\* the analysis loop: `if result['is_contradiction'] or qa_severity == 'INFO'`
Noteworthy(result) == result.is_contradiction \/ result.severity = "INFO"

\* Steps 1 to 4: nothing is analysed when the day has no alerts or none of
\* them has a pattern_id; otherwise the historical alerts are fetched
PipeStart ==
    /\ pipe_pc = "start"
    /\ pipe_pc' = IF \A i \in DOMAIN daily_alerts :
                         AlertIsNone(daily_alerts[i], "pattern_id")
                  THEN "returned" ELSE "index"
    /\ pipe_pos' = 1
    /\ UNCHANGED <<historical_alerts, daily_alerts, resolution_groups, consensus_lookup,
                   stats, findings, pipe_log>>
    /\ UNCHANGED simVars
    /\ UNCHANGED consVars
    /\ UNCHANGED sanVars
    /\ UNCHANGED runVars

\* Step 5, one round of the loop over the historical alerts
PipeIndex ==
    /\ pipe_pc = "index"
    /\ pipe_pos <= Len(historical_alerts)
    /\ LET alert == historical_alerts[pipe_pos]
           template_hash == hash_template(TemplateOf(alert))
           pattern_id == AlertGet(alert, "pattern_id")
           after == IndexStep(Index, alert)
       IN  /\ resolution_groups' = GroupStep(resolution_groups, alert)
           /\ template_tokens' = after.template_tokens
           /\ template_raw' = after.template_raw
           /\ hash_to_pattern' = after.hash_to_pattern
           /\ pattern_to_hashes' = after.pattern_to_hashes
           /\ index_calls' = IF AlertIsNone(alert, "pattern_id") /\ after = Index THEN index_calls
                             ELSE index_calls \cup {<<template_hash, pattern_id>>}
           /\ pipe_log' = IF AlertIsNone(alert, "pattern_id") /\ after = Index THEN pipe_log
                          ELSE Append(pipe_log, [op            |-> "index_template",
                                                 template_hash |-> template_hash])
    /\ pipe_pos' = pipe_pos + 1
    /\ UNCHANGED <<pipe_pc, historical_alerts, daily_alerts, consensus_lookup, stats,
                   findings>>
    /\ UNCHANGED <<threshold, sim_call>>
    /\ UNCHANGED consVars
    /\ UNCHANGED sanVars
    /\ UNCHANGED runVars

\* Step 5, after the loop: the consensus of every group, and the stats of
\* Step 6 before its loop
PipeConsensus ==
    /\ pipe_pc = "index"
    /\ pipe_pos > Len(historical_alerts)
    /\ consensus_lookup' =
           [template_hash \in DOMAIN resolution_groups |->
               calculate_consensus(resolution_groups[template_hash], min_samples,
                                   strong_threshold)]
    /\ stats' = InitialStats(Len(daily_alerts))
    /\ findings' = <<>>
    /\ pipe_pc' = "analyze"
    /\ pipe_pos' = 1
    /\ UNCHANGED <<historical_alerts, daily_alerts, resolution_groups, pipe_log>>
    /\ UNCHANGED simVars
    /\ UNCHANGED consVars
    /\ UNCHANGED sanVars
    /\ UNCHANGED runVars

\* Step 6, one round of the loop over the alerts of the day. pandas holds a
\* missing pattern_id as NaN, which is not None and is no key of the reverse
\* index: find_similar is called for every finding and finds nothing for it
PipeAnalyze ==
    /\ pipe_pc = "analyze"
    /\ pipe_pos <= Len(daily_alerts)
    /\ LET row == daily_alerts[pipe_pos]
           template == TemplateOf(row)
           template_hash == hash_template(template)
           new_resolution == AlertGet(row, "resolution")
           pattern_id == AlertGet(row, "pattern_id")
           consensus == DictGet(consensus_lookup, template_hash,
                                [status |-> "no_data", majority_resolution |-> None])
           result == detect_contradiction(new_resolution, consensus)
           verdict == [op             |-> "detect_contradiction",
                       row            |-> pipe_pos,
                       new_resolution |-> new_resolution,
                       consensus      |-> consensus,
                       ret            |-> result]
       IN  /\ stats' = CountVerdict(CountSeverity(stats, result), result)
           /\ IF Noteworthy(result)
              THEN \E order \in Orders(IF AlertIsNone(row, "pattern_id") THEN {}
                                       ELSE CandidateHashes(pattern_id)) :
                       LET similar_matches ==
                               IF AlertIsNone(row, "pattern_id") THEN <<>>
                               ELSE find_similar(order, template_hash, Chars(template),
                                                 pattern_id, 3)
                       IN  /\ findings' =
                                  Append(findings,
                                         [row            |-> pipe_pos,
                                          template_hash  |-> template_hash,
                                          severity       |-> result.severity,
                                          reason         |-> result.reason,
                                          new_resolution |-> new_resolution,
                                          similar        |-> similar_matches])
                           /\ pipe_log' =
                                  pipe_log \o <<verdict,
                                                [op            |-> "find_similar",
                                                 template_hash |-> template_hash]>>
              ELSE /\ findings' = findings
                   /\ pipe_log' = Append(pipe_log, verdict)
    /\ pipe_pos' = pipe_pos + 1
    /\ UNCHANGED <<pipe_pc, historical_alerts, daily_alerts, resolution_groups,
                   consensus_lookup>>
    /\ UNCHANGED simVars
    /\ UNCHANGED consVars
    /\ UNCHANGED sanVars
    /\ UNCHANGED runVars

\* Step 6, after the loop: the report is written from stats and findings
PipeFinish ==
    /\ pipe_pc = "analyze"
    /\ pipe_pos > Len(daily_alerts)
    /\ pipe_pc' = "returned"
    /\ UNCHANGED <<historical_alerts, daily_alerts, pipe_pos, resolution_groups,
                   consensus_lookup, stats, findings, pipe_log>>
    /\ UNCHANGED simVars
    /\ UNCHANGED consVars
    /\ UNCHANGED sanVars
    /\ UNCHANGED runVars

\* the components of run_qa_pipeline as it builds them, the alerts of the day
\* and the historical alerts the client returns
InitPipeline ==
    /\ threshold = Frac(7, 10)
    /\ template_tokens = EmptyDict
    /\ template_raw = EmptyDict
    /\ hash_to_pattern = EmptyDict
    /\ pattern_to_hashes = EmptyDict
    /\ index_calls = {}
    /\ sim_call = NoCall
    /\ min_samples = 20
    /\ strong_threshold = 900
    /\ cons_call = NoCall
    /\ san_call = NoCall
    /\ executor = [poll_interval_seconds |-> 1, timeout_seconds |-> 1,
                   max_concurrent_queries |-> 1, retry_attempts |-> 0]
    /\ mode = "iterative"
    /\ cid_infos = <<>>
    /\ task = <<>>
    /\ semaphore = 1
    /\ run_call = NoCall
    /\ pipe_pc = "start"
    /\ historical_alerts \in {Historical(counts[1], counts[2], others) :
                                 counts \in HistoryCounts, others \in HistoryOthers}
    /\ daily_alerts \in DailyLists
    /\ pipe_pos = 0
    /\ resolution_groups = EmptyDict
    /\ consensus_lookup = EmptyDict
    /\ stats = EmptyDict
    /\ findings = <<>>
    /\ pipe_log = <<>>

NextPipeline ==
    \/ PipeStart
    \/ PipeIndex
    \/ PipeConsensus
    \/ PipeAnalyze
    \/ PipeFinish

SpecPipeline == InitPipeline /\ [][NextPipeline]_vars

(***************************************************************************)
(* Claims about SimilarityAnalyzer, checked under SpecIndex.               *)
(***************************************************************************)
\* the hashes of the matches the last find_similar returned
ReturnedHashes == {sim_call.ret[i].template_hash : i \in 1..Len(sim_call.ret)}

\* h was indexed, and never under pattern_id p
IndexedOnlyElsewhere(h, p) ==
    /\ \E q \in PatternIds : <<h, q>> \in index_calls
    /\ <<h, p>> \notin index_calls

IsDetect == cons_call.op = "detect_contradiction"

\* the call returned a verdict (it did not raise)
Returned == "raises" \notin DOMAIN cons_call.ret

\* the record's status as detect_contradiction reads it
StatusRead == DictGet(cons_call.consensus, "status", "no_data")

HasMajority == "majority_resolution" \in DOMAIN cons_call.consensus

\* the decision table of the claim
TableSeverity(strength, majority, new) ==
    IF strength = "weak" THEN "LOW"
    ELSE IF majority = "true_positive" /\ new = "false_positive" THEN "CRITICAL"
    ELSE IF majority = "false_positive" /\ new = "true_positive" THEN "HIGH"
    ELSE IF majority = "true_positive" /\ new = "ignored" THEN "MEDIUM"
    ELSE "LOW"

\* C2: for a record with status 'consensus' whose majority_resolution differs
\* from new_resolution and whose strength is strong, moderate or weak,
\* detect_contradiction returns is_contradiction = True with the severity of
\* the decision table (the same for strong and moderate; LOW when weak).
C2_SeverityTable ==
    (/\ IsDetect
     /\ StatusRead = "consensus"
     /\ HasMajority
     /\ cons_call.consensus["majority_resolution"] # cons_call.new_resolution
     /\ DictGet(cons_call.consensus, "strength", Absent) \in {"strong", "moderate", "weak"})
    => /\ Returned
       /\ cons_call.ret.is_contradiction = TRUE
       /\ cons_call.ret.severity =
              TableSeverity(cons_call.consensus["strength"],
                            cons_call.consensus["majority_resolution"],
                            cons_call.new_resolution)

\* C2 witness: a false_positive against a moderate true_positive consensus was
\* rated CRITICAL.
C2_Witness ==
    /\ IsDetect
    /\ StatusRead = "consensus"
    /\ DictGet(cons_call.consensus, "strength", Absent) = "moderate"
    /\ DictGet(cons_call.consensus, "majority_resolution", Absent) = "true_positive"
    /\ cons_call.new_resolution = "false_positive"
    /\ Returned
    /\ cons_call.ret.severity = "CRITICAL"

\* C3: whenever the record holds a majority_resolution equal to new_resolution,
\* whatever its status and strength, the verdict has is_contradiction = False;
\* with status 'consensus' the reason is matches_consensus and the severity null.
C3_MatchIsNoContradiction ==
    (/\ IsDetect
     /\ HasMajority
     /\ cons_call.consensus["majority_resolution"] = cons_call.new_resolution)
    => /\ Returned
       /\ cons_call.ret.is_contradiction = FALSE
       /\ StatusRead = "consensus" =>
              /\ cons_call.ret.reason = "matches_consensus"
              /\ cons_call.ret.severity = None

\* C3 witness: a true_positive met a strong true_positive consensus.
C3_Witness ==
    /\ IsDetect
    /\ StatusRead = "consensus"
    /\ DictGet(cons_call.consensus, "majority_resolution", Absent) = "true_positive"
    /\ DictGet(cons_call.consensus, "strength", Absent) = "strong"
    /\ cons_call.new_resolution = "true_positive"
    /\ Returned
    /\ cons_call.ret.reason = "matches_consensus"

\* C4: detect_contradiction returns a verdict for every consensus record, also
\* one from which keys are missing; a record with status 'consensus' and no
\* majority_resolution gets a verdict that is no contradiction, of severity INFO.
C4_TotalOnMissingFields ==
    IsDetect =>
        /\ Returned
        /\ (StatusRead = "consensus" /\ ~HasMajority) =>
               /\ cons_call.ret.is_contradiction = FALSE
               /\ cons_call.ret.severity = "INFO"

\* C5: for a record whose status is not 'consensus', the verdict is no
\* contradiction, of severity INFO; its reason is novel_pattern for no_data or
\* a missing status, insufficient_historical_data for insufficient_data, and
\* the status itself for any other status.
C5_NonConsensusIsInfo ==
    (IsDetect /\ StatusRead # "consensus")
    => /\ Returned
       /\ cons_call.ret.is_contradiction = FALSE
       /\ cons_call.ret.severity = "INFO"
       /\ cons_call.ret.reason =
              IF "status" \notin DOMAIN cons_call.consensus THEN "novel_pattern"
              ELSE IF cons_call.consensus["status"] = "no_data" THEN "novel_pattern"
              ELSE IF cons_call.consensus["status"] = "insufficient_data"
                   THEN "insufficient_historical_data"
              ELSE cons_call.consensus["status"]

\* C5 witness: a record with a status the calculator does not know got a
\* verdict whose reason is that status.
C5_Witness ==
    /\ IsDetect
    /\ DictGet(cons_call.consensus, "status", Absent) = "unknown_status"
    /\ Returned
    /\ cons_call.ret.severity = "INFO"
    /\ cons_call.ret.reason = "unknown_status"

(***************************************************************************)
(* Claims about calculate_consensus and _wilson_interval, checked under    *)
(* SpecConsensus.                                                          *)
(***************************************************************************)
IsCalculate == cons_call.op = "calculate_consensus"

IsWilson == cons_call.op = "_wilson_interval"

\* the number of entries of the input that are neither None nor empty
NonEmptyCount ==
    Cardinality({i \in DOMAIN cons_call.resolutions :
                    cons_call.resolutions[i] # None /\ cons_call.resolutions[i] # ""})

\* the labels that occur in the input
LabelsGiven == Range(cons_call.resolutions) \cap Labels

\* the number of occurrences of the reported majority label in the input
MajorityCount == Count(cons_call.resolutions, cons_call.ret.majority_resolution)

RECURSIVE SumOver(_, _)
\* the sum of f over the keys in S
SumOver(f, S) ==
    IF S = {} THEN 0
    ELSE LET k == CHOOSE k \in S : TRUE IN f[k] + SumOver(f, S \ {k})

\* C6: with n the number of non-empty entries, calculate_consensus gives
\* no_data (majority, ratio and strength null, sample_size 0) when n = 0;
\* insufficient_data (a majority label of the input and a ratio reported,
\* strength null, no confidence_interval) when 0 < n < min_samples; and
\* consensus (strength, confidence_interval and the full label-to-count
\* distribution present) when n > 0 and n >= min_samples.
C6_ThreeStatuses ==
    IsCalculate =>
        LET n == NonEmptyCount
            ret == cons_call.ret
        IN  IF n = 0
            THEN /\ ret.status = "no_data"
                 /\ ret.majority_resolution = None
                 /\ ret.ratio = None
                 /\ ret.strength = None
                 /\ ret.sample_size = 0
                 /\ DOMAIN ret = {"status", "majority_resolution", "ratio",
                                  "sample_size", "strength"}
            ELSE IF n < min_samples
            THEN /\ ret.status = "insufficient_data"
                 /\ ret.majority_resolution \in LabelsGiven
                 /\ DOMAIN ret.ratio = {"num", "den"}
                 /\ ret.strength = None
                 /\ "confidence_interval" \notin DOMAIN ret
            ELSE /\ ret.status = "consensus"
                 /\ ret.majority_resolution \in LabelsGiven
                 /\ ret.strength \in {"strong", "moderate", "weak"}
                 /\ "confidence_interval" \in DOMAIN ret
                 /\ Len(ret.confidence_interval) = 2
                 /\ "distribution" \in DOMAIN ret
                 /\ DOMAIN ret.distribution = LabelsGiven
                 /\ \A l \in LabelsGiven :
                        ret.distribution[l] = Count(cons_call.resolutions, l)

\* C6 witness: two labels and an empty entry under min_samples = 3 gave
\* insufficient_data with the majority label reported.
C6_Witness ==
    /\ IsCalculate
    /\ min_samples = 3
    /\ NonEmptyCount = 2
    /\ Len(cons_call.resolutions) = 3
    /\ cons_call.ret.status = "insufficient_data"
    /\ cons_call.ret.majority_resolution = "ignored"

\* C7: in all three statuses sample_size is the number of entries of the input
\* that are neither None nor empty, in whatever order they come; in status
\* consensus the counts of distribution sum to sample_size.
C7_SampleSize ==
    IsCalculate =>
        /\ cons_call.ret.sample_size = NonEmptyCount
        /\ cons_call.ret.status = "consensus" =>
               SumOver(cons_call.ret.distribution, DOMAIN cons_call.ret.distribution)
                   = cons_call.ret.sample_size

\* C7 witness: a list holding None, an empty string and two different labels
\* gave a consensus over two samples.
C7_Witness ==
    /\ IsCalculate
    /\ None \in Range(cons_call.resolutions)
    /\ "" \in Range(cons_call.resolutions)
    /\ Len(cons_call.resolutions) = 4
    /\ cons_call.ret.status = "consensus"
    /\ cons_call.ret.sample_size = 2
    /\ Cardinality(DOMAIN cons_call.ret.distribution) = 2

\* the rule of the claim: strong, else moderate, else weak
RuleStrength(ratio, ci_low) ==
    IF FracGE(ratio, Frac(strong_threshold, 1000)) /\ FracGE(ci_low, Frac(7, 10))
    THEN "strong"
    ELSE IF FracGE(ratio, Frac(8, 10)) THEN "moderate"
    ELSE "weak"

\* C8 as stated: in every consensus result the strength follows by the rule
\* from the ratio and the confidence interval that the result reports.
C8_StrengthFromReported ==
    (IsCalculate /\ cons_call.ret.status = "consensus") =>
        cons_call.ret.strength =
            RuleStrength(cons_call.ret.ratio, cons_call.ret.confidence_interval[1])

\* C8 amended: in every consensus result the strength follows by the rule from
\* the unrounded ratio majority_count / sample_size and the unrounded lower
\* bound of the Wilson interval of (majority_count, sample_size).
C8_StrengthFromUnrounded ==
    (IsCalculate /\ cons_call.ret.status = "consensus") =>
        cons_call.ret.strength =
            RuleStrength(Frac(MajorityCount, NonEmptyCount),
                         wilson_interval(MajorityCount, NonEmptyCount).low)

\* C8 witness: a consensus reported as moderate although the reported ratio
\* and the reported lower bound both reach the floors of strong.
C8_Witness ==
    /\ IsCalculate
    /\ cons_call.ret.status = "consensus"
    /\ cons_call.ret.strength = "moderate"
    /\ FracGE(cons_call.ret.ratio, Frac(strong_threshold, 1000))
    /\ FracGE(cons_call.ret.confidence_interval[1], Frac(7, 10))

\* C9 as stated: whenever the ratio is not null it equals
\* majority_count / sample_size and lies in [0, 1].
C9_RatioExact ==
    (IsCalculate /\ cons_call.ret.status \in {"insufficient_data", "consensus"}) =>
        /\ FracEq(cons_call.ret.ratio, Frac(MajorityCount, cons_call.ret.sample_size))
        /\ FracGE(cons_call.ret.ratio, Frac(0, 1))
        /\ FracGE(Frac(1, 1), cons_call.ret.ratio)

\* C9 amended: in status insufficient_data the ratio equals
\* majority_count / sample_size; in status consensus it is a number of
\* thousandths at most half a thousandth away from majority_count /
\* sample_size; in both it lies in [0, 1].
C9_RatioRounded ==
    (IsCalculate /\ cons_call.ret.status \in {"insufficient_data", "consensus"}) =>
        LET ratio == cons_call.ret.ratio
            n == cons_call.ret.sample_size
            diff == ratio.num * n - 1000 * MajorityCount
        IN  /\ cons_call.ret.status = "insufficient_data" =>
                   FracEq(ratio, Frac(MajorityCount, n))
            /\ cons_call.ret.status = "consensus" =>
                   /\ ratio.den = 1000
                   /\ 2 * diff <= n
                   /\ 2 * diff >= 0 - n
            /\ FracGE(ratio, Frac(0, 1))
            /\ FracGE(Frac(1, 1), ratio)

\* C9 witness: a consensus whose reported ratio is not the exact quotient
\* (two of three gives 0.667).
C9_Witness ==
    /\ IsCalculate
    /\ cons_call.ret.status = "consensus"
    /\ cons_call.ret.sample_size = 3
    /\ MajorityCount = 2
    /\ cons_call.ret.ratio = Frac(667, 1000)

\* 0 <= a <= b <= 1 for fractions a and b
UnitOrdered(a, b) == FracGE(a, Frac(0, 1)) /\ FracGE(b, a) /\ FracGE(Frac(1, 1), b)

\* C10: for 0 <= successes <= n, _wilson_interval gives 0 <= low <= high <= 1,
\* and (0.0, 0.0) when n = 0; the confidence_interval of a consensus result
\* satisfies 0 <= ci[0] <= ci[1] <= 1 as well.
C10_WilsonBounds ==
    /\ IsWilson =>
           /\ UnitOrdered(cons_call.ret.low, cons_call.ret.high)
           /\ cons_call.n = 0 =>
                  /\ FracEq(cons_call.ret.low, Frac(0, 1))
                  /\ FracEq(cons_call.ret.high, Frac(0, 1))
    /\ (IsCalculate /\ cons_call.ret.status = "consensus") =>
           UnitOrdered(cons_call.ret.confidence_interval[1],
                       cons_call.ret.confidence_interval[2])

\* C10 witness: the interval of 18 successes out of 20 lies strictly inside
\* (0, 1), its lower bound just under 0.70.
C10_Witness ==
    /\ IsWilson
    /\ cons_call.n = 20
    /\ cons_call.successes = 18
    /\ Round3(cons_call.ret.low.num, cons_call.ret.low.den) = 699
    /\ Round3(cons_call.ret.high.num, cons_call.ret.high.den) = 972

\* C11: in the statuses insufficient_data and consensus the majority label is
\* a label of the input whose count among the non-empty entries is the
\* largest, and among the labels with that count it is the one that occurs
\* first in the input list; the input list alone determines it.
C11_MajorityFirstOfTies ==
    (IsCalculate /\ cons_call.ret.status \in {"insufficient_data", "consensus"}) =>
        LET res == cons_call.resolutions
            m == cons_call.ret.majority_resolution
        IN  /\ m \in LabelsGiven
            /\ \A l \in LabelsGiven :
                   /\ Count(res, m) >= Count(res, l)
                   /\ Count(res, m) = Count(res, l) =>
                          FirstIndex(res, m) <= FirstIndex(res, l)

\* C11 witness: three labels once each, after an empty entry, gave the label
\* that comes first in the list, which is not the first of the labels in any
\* alphabetical order.
C11_Witness ==
    /\ IsCalculate
    /\ cons_call.resolutions = <<"", "ignored", "true_positive", "false_positive">>
    /\ cons_call.ret.status \in {"insufficient_data", "consensus"}
    /\ cons_call.ret.majority_resolution = "ignored"

(***************************************************************************)
(* Claims about what find_similar returns, checked under SpecIndex and     *)
(* SpecRanking.                                                            *)
(***************************************************************************)
IsFind == sim_call.op = "find_similar"

\* the token set of the query of the last lookup
QueryTokens == tokenize(sim_call.template)

\* numerator and denominator of the Jaccard similarity of the query to the
\* indexed hash h
SharedWith(h) == Cardinality(QueryTokens \cap template_tokens[h])

UnionWith(h) == Cardinality(QueryTokens \cup template_tokens[h])

\* the Jaccard similarity of the query to h is at least the threshold
JaccardPasses(h) ==
    /\ QueryTokens # {}
    /\ template_tokens[h] # {}
    /\ SharedWith(h) * threshold.den >= threshold.num * UnionWith(h)

\* h is a hash index_template was called with under the query's pattern_id,
\* it is not the query's own hash and it is similar enough to the query
ShouldMatch(h) ==
    /\ <<h, sim_call.pattern_id>> \in index_calls
    /\ h # sim_call.template_hash
    /\ JaccardPasses(h)

\* the number of matches returned for h
MatchCount(h) ==
    Cardinality({i \in 1..Len(sim_call.ret) : sim_call.ret[i].template_hash = h})

\* the result holds one match for each hash that should match and no other
ExactlyTheQualifying ==
    \A h \in Hashes : MatchCount(h) = IF ShouldMatch(h) THEN 1 ELSE 0

\* sim, in thousandths, is the Jaccard similarity of the query to h rounded to
\* three decimals: it is within half a thousandth of it
IsRounded(sim, h) ==
    LET diff == 1000 * SharedWith(h) - sim * UnionWith(h)
    IN  /\ 2 * diff <= UnionWith(h)
        /\ 2 * diff >= 0 - UnionWith(h)

Omitted == {h \in Hashes : ShouldMatch(h) /\ MatchCount(h) = 0}

\* the result is in order of non-increasing reported similarity
NonIncreasing ==
    \A i, j \in 1..Len(sim_call.ret) :
        i < j => sim_call.ret[i].similarity >= sim_call.ret[j].similarity

\* C13 as stated: the list find_similar returns is ordered by non-increasing
\* similarity and has at most max_results entries; when qualifying candidates
\* are cut off, no omitted candidate has a strictly greater Jaccard similarity
\* to the query than a returned one.
C13_NoBetterOmitted ==
    IsFind =>
        /\ NonIncreasing
        /\ Len(sim_call.ret) <= sim_call.max_results
        /\ \A h \in Omitted : \A i \in 1..Len(sim_call.ret) :
               SharedWith(h) * UnionWith(sim_call.ret[i].template_hash)
                   <= SharedWith(sim_call.ret[i].template_hash) * UnionWith(h)

\* C13 amended: the list is ordered by non-increasing reported similarity, the
\* Jaccard similarity rounded to three decimals, and has at most max_results
\* entries; when qualifying candidates are cut off, no omitted candidate has a
\* strictly greater reported similarity than a returned one.
C13_NoBetterReportedOmitted ==
    IsFind =>
        /\ NonIncreasing
        /\ Len(sim_call.ret) <= sim_call.max_results
        /\ \A h \in Omitted : \A i \in 1..Len(sim_call.ret) :
               Round3(SharedWith(h), UnionWith(h)) <= sim_call.ret[i].similarity

\* C13 witness: a lookup with max_results 1 kept a candidate of similarity
\* 33/34 and left out one of similarity 34/35; both are reported as 0.971.
C13_Witness ==
    /\ IsFind
    /\ sim_call.max_results = 1
    /\ Len(sim_call.ret) = 1
    /\ sim_call.ret[1].similarity = 971
    /\ SharedWith(sim_call.ret[1].template_hash) = 33
    /\ UnionWith(sim_call.ret[1].template_hash) = 34
    /\ \E h \in Omitted : SharedWith(h) = 34 /\ UnionWith(h) = 35

(***************************************************************************)
(* Claims about lookups and batches, checked under SpecBatch.              *)
(***************************************************************************)
IsBatch == sim_call.op = "find_similar_batch"

\* C14: find_similar and find_similar_batch leave the index unchanged: in
\* every step that is one of these calls, the token map, the raw-template map,
\* the hash-to-pattern map and the reverse index, and with them index_count and
\* patterns_indexed, are after the call what they were before it, also when the
\* pattern_id or the hash of the query was never indexed.
C14_LookupsLeaveIndex ==
    [][(sim_call = NoCall /\ sim_call'.op \in {"find_similar", "find_similar_batch"}) =>
           /\ template_tokens' = template_tokens
           /\ template_raw' = template_raw
           /\ hash_to_pattern' = hash_to_pattern
           /\ pattern_to_hashes' = pattern_to_hashes
           /\ index_count' = index_count
           /\ patterns_indexed' = patterns_indexed]_vars

\* C14 witness: on an index that holds templates, a batch has asked for a hash
\* and a pattern_id that were never indexed; neither is a key of the index
\* after the batch.
C14_Witness ==
    /\ IsBatch
    /\ index_count > 0
    /\ patterns_indexed = 1
    /\ \E i \in 1..Len(sim_call.queries) :
           /\ sim_call.queries[i][1] \notin DOMAIN template_tokens
           /\ sim_call.queries[i][3] \notin DOMAIN pattern_to_hashes

(***************************************************************************)
(* Claims about index_template, checked under SpecIndex.                   *)
(***************************************************************************)
\* C15: index_template is idempotent with last write wins: from the index
\* state reached, index_template(h, t1, p1) followed by
\* index_template(h, t2, p2) leaves the four maps, and with them index_count,
\* patterns_indexed and the result of every later find_similar, the same as
\* index_template(h, t2, p2) alone, whether or not (t1, p1) = (t2, p2).
C15_LastWriteWins ==
    sim_call = NoCall =>
        \A h \in Hashes, t1 \in Templates, t2 \in Templates,
           p1 \in PatternIds, p2 \in PatternIds :
            index_template(index_template(Index, h, t1, p1), h, t2, p2)
                = index_template(Index, h, t2, p2)

\* what find_similar returns for the i-th query of the last batch, the
\* candidate sets being iterated as they were in the batch
SingleResult(i) ==
    find_similar(sim_call.orders[sim_call.queries[i][3]], sim_call.queries[i][1],
                 sim_call.queries[i][2], sim_call.queries[i][3],
                 sim_call.max_results_per_query)

\* the keys of the map a batch returns are the hashes of its queries; no
\* queries, no keys
KeysAreQueryHashes ==
    /\ DOMAIN sim_call.ret = {sim_call.queries[i][1] : i \in 1..Len(sim_call.queries)}
    /\ sim_call.queries = <<>> => sim_call.ret = EmptyDict

\* the i-th query is the last of the batch with its hash
LastWithItsHash(i) ==
    \A j \in 1..Len(sim_call.queries) :
        sim_call.queries[j][1] = sim_call.queries[i][1] => j <= i

\* C16 as stated: the key set of the map find_similar_batch(queries, k)
\* returns is the set of query hashes, and for every query (h, t, p) of the
\* list the entry for h equals find_similar(h, t, p, k) on the same index; an
\* empty list gives an empty map.
C16_EntryPerQuery ==
    IsBatch =>
        /\ KeysAreQueryHashes
        /\ \A i \in 1..Len(sim_call.queries) :
               sim_call.ret[sim_call.queries[i][1]] = SingleResult(i)

\* C16 amended: the key set is the set of query hashes and an empty list gives
\* an empty map; the entry for a hash h equals find_similar(h, t, p, k) on the
\* same index for the last query (h, t, p) of the list that has the hash h.
C16_EntryOfLastQueryPerHash ==
    IsBatch =>
        /\ KeysAreQueryHashes
        /\ \A i \in 1..Len(sim_call.queries) :
               LastWithItsHash(i) =>
                   sim_call.ret[sim_call.queries[i][1]] = SingleResult(i)

\* C16 witness: a batch of two queries with the same hash and different
\* templates, for which find_similar gives different results, returned one
\* entry: the non-empty result of the second query.
C16_Witness ==
    /\ IsBatch
    /\ Len(sim_call.queries) = 2
    /\ sim_call.queries[1][1] = sim_call.queries[2][1]
    /\ sim_call.queries[1][2] # sim_call.queries[2][2]
    /\ SingleResult(1) # SingleResult(2)
    /\ SingleResult(2) # <<>>
    /\ sim_call.ret[sim_call.queries[2][1]] = SingleResult(2)
    /\ Cardinality(DOMAIN sim_call.ret) = 1

(***************************************************************************)
(* Claims about jaccard_similarity, checked under SpecJaccard.             *)
(***************************************************************************)
IsJaccard == sim_call.op = "jaccard_similarity"

\* C17: jaccard_similarity(a, b) is |a /\ b| / |a \/ b| when both sets are
\* non-empty and 0 when either is empty; it is 1 for a = b non-empty, it is
\* the same for (a, b) and (b, a), and it lies in [0, 1].
C17_JaccardLaws ==
    IsJaccard =>
        LET a == sim_call.set_a
            b == sim_call.set_b
            ret == sim_call.ret
        IN  /\ ret.den > 0
            /\ (a # {} /\ b # {}) =>
                   ret.num * Cardinality(a \cup b) = Cardinality(a \cap b) * ret.den
            /\ (a = {} \/ b = {}) => ret.num = 0
            /\ (a = b /\ a # {}) => ret.num = ret.den
            /\ FracEq(ret, jaccard_similarity(b, a))
            /\ 0 <= ret.num /\ ret.num <= ret.den

\* C17 witness: two different non-empty sets that share one token of three
\* gave 1/3.
C17_Witness ==
    /\ IsJaccard
    /\ sim_call.set_a # sim_call.set_b
    /\ Cardinality(sim_call.set_a) = 2
    /\ Cardinality(sim_call.set_b) = 2
    /\ Cardinality(sim_call.set_a \cap sim_call.set_b) = 1
    /\ FracEq(sim_call.ret, Frac(1, 3))

(***************************************************************************)
(* Claims about the Sanitizer, checked under SpecSanitizer.                *)
(***************************************************************************)
IsGenerate == san_call.op = "generate_template"

\* the text of a field: nothing for a field that is missing, None or empty
FieldText(x) == IF x.type = "str" THEN x.v ELSE ""

\* what sanitize makes of each command line
SanitizedCmdline == [cmdline \in CmdlineValues \ {PyAbsent} |-> sanitize(cmdline)]

\* the pattern id, the sanitized command line, the filename and the parent
\* filename that the values of the four keys of an alert stand for
PatternIdText(pattern_id) == IF pattern_id = PyAbsent THEN "0" ELSE PyToStr(pattern_id)

CmdlineText(cmdline) == IF cmdline = PyAbsent THEN "" ELSE SanitizedCmdline[cmdline]

ParentText(parent_details) ==
    IF parent_details.type = "dict"
    THEN FieldText(DictGet(parent_details.v, "filename", PyNone))
    ELSE ""

FourFields(alert) ==
    [pattern_id |-> PatternIdText(DictGet(alert, "pattern_id", PyAbsent)),
     cmdline    |-> CmdlineText(DictGet(alert, "cmdline", PyAbsent)),
     filename   |-> FieldText(DictGet(alert, "filename", PyAbsent)),
     parent     |-> ParentText(DictGet(alert, "parent_details", PyAbsent))]

\* the alerts with the same four fields as the alert of the call
SameFields ==
    LET fields == FourFields(san_call.alert)
    IN  {MakeAlert(p, c, f, d) :
             p \in {x \in PatternIdValues : PatternIdText(x) = fields.pattern_id},
             c \in {x \in CmdlineValues : CmdlineText(x) = fields.cmdline},
             f \in {x \in FilenameValues : FieldText(x) = fields.filename},
             d \in {x \in ParentDetailsValues : ParentText(x) = fields.parent}}

IsSanitize == san_call.op = "sanitize"

\* the text s contains the text sub
Contains(s, sub) ==
    \E i \in 1..(Len(s) - Len(sub) + 1) : SubSeq(s, i, i + Len(sub) - 1) = sub

\* the words of a text: what whitespace separates
Words(s) == {SubSeq(s, i, WordEnd(s, i)) : i \in WordStarts(s)}

\* the well-known SIDs that are a word of the text of the call
SidsGiven ==
    IF PyTruthy(san_call.text)
    THEN {k \in 1..Len(WELL_KNOWN_SIDS) : WELL_KNOWN_SIDS[k][1] \in Words(san_call.text.v)}
    ELSE {}

\* C19: for every SID of the well-known table, sanitize of a text that holds
\* the SID as a token of its own returns a text that holds the name token of
\* the SID and not the SID, and no rule alters the name token once the
\* replacement of the well-known SIDs has put it into the text
C19_WellKnownSidNamed ==
    IsSanitize =>
        \A k \in SidsGiven :
            /\ Contains(san_call.ret, WELL_KNOWN_SIDS[k][2])
            /\ ~Contains(san_call.ret, WELL_KNOWN_SIDS[k][1])
            /\ \A step \in 1..Len(san_call.steps) :
                   Contains(san_call.steps[step], WELL_KNOWN_SIDS[k][2])

\* the placeholders of the rules in the order in which the rules are listed:
\* IPv4, IPv6, GUID, the two temp paths, URL host, ISO timestamp, Unix
\* timestamp, base64, long hex, domain SID, PID marker, random alphanumeric
RulePlaceholders ==
    <<"<IP>", "<IP>", "<GUID>", "<TEMP>", "<TEMP>", "<HOST>", "<TIME>", "<TIME>",
      "<DATA>", "<HEX>", "<SID>", "<PID>", "<RAND>">>

\* the pattern matches the whole of s
FullMatch(pattern, s) ==
    LET ends == Ends(pattern, s, 1)
    IN  \E k \in 1..Len(ends) : ends[k] = Len(s) + 1

\* the rules whose pattern matches the whole word
RulesMatching(word) ==
    {k \in 1..Len(SANITIZATION_RULES) : FullMatch(SANITIZATION_RULES[k].pattern, word)}

\* the words of the text of the call that two rules or more match
ContestedWords ==
    {word \in Words(san_call.text.v) : Cardinality(RulesMatching(word)) >= 2}

\* the first of a non-empty set of rules
FirstRule(rules) == CHOOSE k \in rules : \A j \in rules : k <= j

\* C20: every call of sanitize on a text replaces the well-known SIDs first,
\* then applies the rules in the listed order, each rule to the text the rule
\* before it left, and collapses the whitespace last; a word that two rules
\* match is replaced with the placeholder of the first of them and shows the
\* placeholder of none of the others (a run that the base64 rule and the hex
\* rule match becomes <DATA>)
C20_FixedOrder ==
    (IsSanitize /\ PyTruthy(san_call.text)) =>
        LET steps == san_call.steps
            last == Len(SANITIZATION_RULES) + 1
        IN  /\ Len(steps) = last
            /\ steps[1] = replace_well_known_sids(san_call.text.v, Len(WELL_KNOWN_SIDS))
            /\ \A k \in 1..Len(SANITIZATION_RULES) :
                   /\ SANITIZATION_RULES[k].replacement = RulePlaceholders[k]
                   /\ steps[k + 1] = re_sub(SANITIZATION_RULES[k], steps[k])
            /\ san_call.ret = JoinWords(steps[last], WordStarts(steps[last]))
            /\ \A word \in ContestedWords :
                   LET rules == RulesMatching(word)
                       first == FirstRule(rules)
                   IN  /\ Contains(san_call.ret, RulePlaceholders[first])
                       /\ \A k \in rules :
                              RulePlaceholders[k] # RulePlaceholders[first]
                                  => ~Contains(san_call.ret, RulePlaceholders[k])

\* a call on a text with an MD5 digest, which the base64 rule, the hex rule
\* and the rule for random strings match
C20_Witness ==
    /\ IsSanitize
    /\ san_call.text = PyStr("hash: d41d8cd98f00b204e9800998ecf8427e")
    /\ RulesMatching("d41d8cd98f00b204e9800998ecf8427e") = {9, 10, 13}
    /\ san_call.ret = "hash: <DATA>"

\* the words of the text of the call that are a domain SID: the words the
\* pattern of the domain SID rule matches in full
DomainSidsGiven ==
    IF PyTruthy(san_call.text)
    THEN {word \in Words(san_call.text.v) : FullMatch(SANITIZATION_RULES[11].pattern, word)}
    ELSE {}

\* C21: every domain SID S-1-5-21-<digits>-<digits>-<digits>[-<digits>] in
\* the input of sanitize is replaced by <SID> in the output, whatever the
\* values and the lengths of its groups of digits
C21_DomainSidReplaced ==
    (IsSanitize /\ DomainSidsGiven # {}) =>
        /\ Contains(san_call.ret, "<SID>")
        /\ ~Contains(san_call.ret, "S-1-5-21")
        /\ \A word \in DomainSidsGiven : ~Contains(san_call.ret, word)

(***************************************************************************)
(* Claims about the maps of the index, checked under SpecIndex.            *)
(***************************************************************************)
\* the number of hashes in the sets of the reverse index, a hash counted once
\* for each set it is in
ReverseIndexSize ==
    Cardinality({<<p, h>> \in (DOMAIN pattern_to_hashes) \X Hashes :
                     h \in pattern_to_hashes[p]})

\* C27: after any sequence of index_template calls the token map, the raw
\* template map and the hash-to-pattern map have the same keys, a hash h is
\* in the reverse-index set of the pattern p exactly if the hash-to-pattern
\* map sends h to p, and index_count is the total size of the sets of the
\* reverse index
C27_MapsConsistent ==
    /\ DOMAIN template_tokens = DOMAIN template_raw
    /\ DOMAIN template_raw = DOMAIN hash_to_pattern
    /\ \A h \in Hashes, p \in PatternIds :
           (p \in DOMAIN pattern_to_hashes /\ h \in pattern_to_hashes[p])
               <=> (h \in DOMAIN hash_to_pattern /\ hash_to_pattern[h] = p)
    /\ index_count = ReverseIndexSize

(***************************************************************************)
(* Claims about the query executor, checked under SpecExecute and SpecRun. *)
(***************************************************************************)
\* the task has ended and its last attempt came to `got`
EndedWith(t, got) == t.pc = "done" /\ t.got = got

\* the status of a finished query
IsDoneStatus(got) == "done" \in DOMAIN got /\ got.done

\* the result is a QueryResult for a failed query with the given error
IsErrorResult(outcome, error) ==
    /\ ~IsRaised(outcome)
    /\ "error" \in DOMAIN outcome
    /\ outcome.error = error
    /\ outcome.events = <<>>
    /\ outcome.record_count = 0

\* the result is a QueryResult for a finished query with the given events
IsSuccessResult(outcome, events) ==
    /\ ~IsRaised(outcome)
    /\ outcome.events = events
    /\ outcome.record_count = Len(events)
    /\ ("error" \in DOMAIN outcome => outcome.error = None)

\* C22: execute_query submits the query at most retry_attempts + 1 times; it
\* retries after QuerySubmissionError, QueryStatusError or QueryTimeoutError
\* while attempts remain; the first attempt that succeeds ends it with a
\* success result; and when all retry_attempts + 1 attempts failed it
\* returns, and does not raise, a result with the error field set to the last
\* error, no events and record_count 0
C22_RetriesThenErrorResult ==
    \A i \in DOMAIN task :
        LET t == task[i]
        IN  /\ t.submits <= executor.retry_attempts + 1
            /\ t.pc = "retry_sleep" =>
                   (t.attempt < executor.retry_attempts /\ t.got.raises \in Retried)
            /\ (t.pc = "done" /\ IsDoneStatus(t.got)) =>
                   IsSuccessResult(t.outcome, t.got.events)
            /\ \A error \in Retried :
                   EndedWith(t, Raises(error)) =>
                       (t.submits = executor.retry_attempts + 1
                            /\ IsErrorResult(t.outcome, error))

\* the call of the entry point is over: it returned or raised
CallOver(entry) ==
    run_call.op \in {"raised", "returned", "closed"} /\ run_call.entry = entry

\* C23: run_iterative returns exactly one result per CID, in the order of
\* the input, whatever the outcome of each query was; for an empty list of
\* CIDs it returns an empty list and submits no query
C23_OneResultPerCid ==
    CallOver("run_iterative") =>
        /\ ~IsRaised(run_call.ret)
        /\ Len(run_call.ret) = Len(cid_infos)
        /\ \A i \in DOMAIN cid_infos : run_call.ret[i].cid = cid_infos[i]
        /\ cid_infos = <<>> => task = <<>>

\* the per-CID queries that hold the semaphore
Running == {i \in DOMAIN task : InProgress(task[i])}

\* C24: in iterative mode at most max_concurrent_queries per-CID queries are
\* in progress at any moment, and the query of every CID that waits for the
\* semaphore is started in the end
C24_BoundedAndStarted ==
    /\ [](mode = "iterative" => Cardinality(Running) <= executor.max_concurrent_queries)
    /\ \A i \in 1..MaxCids :
           (i \in DOMAIN task /\ task[i].pc = "acquire")
               ~> (i \in DOMAIN task /\ task[i].pc = "submit")

\* C25: run returns an OverallSummary whose total_cids is the number of CIDs
\* and whose successful_cids and failed_cids add up to it, in both modes: a
\* batch that succeeded counts every CID as successful, a batch that failed
\* counts every CID as failed, and the iterative mode counts the results by
\* their error
C25_SummaryCounts ==
    CallOver("run") =>
        /\ ~IsRaised(run_call.ret)
        /\ run_call.ret.total_cids = Len(cid_infos)
        /\ run_call.ret.successful_cids + run_call.ret.failed_cids = Len(cid_infos)
        /\ mode = "batch" =>
               run_call.ret.successful_cids \in {0, Len(cid_infos)}

\* the first half of C24 alone: the semaphore bounds the queries in progress
C24_Bounded ==
    mode = "iterative" => Cardinality(Running) <= executor.max_concurrent_queries

\* all queries the semaphore allows are in progress while another waits
C24_BoundReached ==
    /\ mode = "iterative"
    /\ Cardinality(Running) = executor.max_concurrent_queries
    /\ \E i \in DOMAIN task : task[i].pc = "acquire"

\* what holds of a task inside poll_until_complete
PollState(t) ==
    /\ t.pc = "status" => t.elapsed <= executor.timeout_seconds
    /\ t.pc = "cancel" => (t.elapsed > executor.timeout_seconds /\ t.cancels = 0)
    /\ t.cancels <= 1
    /\ t.cancels = 1 <=> t.got = Raises("QueryTimeoutError")
    /\ t.got = Raises("QueryTimeoutError") => t.elapsed > executor.timeout_seconds
    /\ IsDoneStatus(t.got) => (t.pc = "done" /\ t.polls >= 1)

\* what holds of a step of a task inside poll_until_complete
PollStep(t, next) ==
    /\ (t.pc = "poll_check" /\ next.pc = "status") => next.elapsed <= executor.timeout_seconds
    /\ (t.pc = "status" /\ IsDoneStatus(next.got)) => next.pc = "done"
    /\ (t.pc = "status" /\ next.got = NoCall) => next.pc = "poll_sleep"
    /\ t.pc = "poll_sleep" => next.pc = "poll_check"
    /\ t.pc = "cancel" => (next.cancels = 1 /\ next.polls = t.polls)
    /\ (t.cancels = 1 /\ next.cancels = 1) => next.polls = t.polls

\* C26: poll_until_complete returns the status as soon as a status has
\* done = true, and polls again otherwise until the elapsed time is greater
\* than timeout_seconds; then it calls cancel_query exactly once and raises
\* QueryTimeoutError, also when the cancellation fails, and it asks for no
\* status after the attempt to cancel
C26_PollUntilComplete ==
    /\ [](\A i \in DOMAIN task : PollState(task[i]))
    /\ [][\A i \in DOMAIN task : PollStep(task[i], task'[i])]_vars

\* a query was polled, timed out and was cancelled
C26_Witness ==
    \E i \in DOMAIN task :
        /\ task[i].got = Raises("QueryTimeoutError")
        /\ task[i].cancels = 1
        /\ task[i].polls >= 2

(***************************************************************************)
(* Claims about run_qa_pipeline, checked under SpecPipeline.               *)
(***************************************************************************)
\* the positions of the log that hold a call of op
LogOf(op) == {i \in DOMAIN pipe_log : pipe_log[i].op = op}

\* the historical alerts the index loop has been through
HistoricalDone ==
    IF pipe_pc = "index" THEN SubSeq(historical_alerts, 1, pipe_pos - 1)
    ELSE IF pipe_pc = "start" \/ stats = EmptyDict THEN <<>>
    ELSE historical_alerts

\* those of them that have a pattern_id
PatternedDone == SelectSeq(HistoricalDone, LAMBDA alert : ~AlertIsNone(alert, "pattern_id"))

\* the hash of the template of an alert
HashOf(alert) == hash_template(TemplateOf(alert))

\* C28: in run_qa_pipeline every index_template call, one per historical
\* alert that has a pattern_id, comes before the first find_similar call, no
\* index_template call follows a lookup, and the alerts of the day are looked
\* up and never indexed
C28_PhasesSeparated ==
    /\ \A i \in LogOf("index_template"), j \in LogOf("find_similar") : i < j
    /\ Cardinality(LogOf("index_template")) = Len(PatternedDone)
    /\ DOMAIN template_raw = {HashOf(alert) : alert \in Range(PatternedDone)}
    /\ index_calls = {<<HashOf(alert), AlertGet(alert, "pattern_id")>> :
                         alert \in Range(PatternedDone)}
    /\ \A j \in LogOf("find_similar") :
           pipe_log[j].template_hash \in {HashOf(row) : row \in Range(daily_alerts)}

\* the run is over, it indexed historical alerts and skipped one without
\* pattern_id, and it looked up an alert of the day whose template is not in
\* the index
C28_Witness ==
    /\ pipe_pc = "returned"
    /\ LogOf("index_template") # {}
    /\ Len(PatternedDone) < Len(historical_alerts)
    /\ \E j \in LogOf("find_similar") : pipe_log[j].template_hash \notin DOMAIN template_raw

\* the verdicts on the alerts of the day that have no resolution and whose
\* template has a consensus
Unresolved ==
    {i \in LogOf("detect_contradiction") :
        /\ pipe_log[i].new_resolution \in {None, ""}
        /\ pipe_log[i].consensus.status = "consensus"}

\* C29: against a consensus with a majority resolution, detect_contradiction
\* takes an absent or empty new_resolution for a contradiction of severity
\* LOW, whatever the strength and the majority, and run_qa_pipeline reports
\* the alert of the day as a LOW contradiction
C29_UnresolvedIsLowContradiction ==
    \A i \in Unresolved :
        /\ Truthy(pipe_log[i].consensus.majority_resolution)
        /\ pipe_log[i].ret.is_contradiction
        /\ pipe_log[i].ret.severity = "LOW"
        /\ \A strength \in {"strong", "moderate", "weak"}, majority \in Labels :
               LET result == detect_contradiction(
                                 pipe_log[i].new_resolution,
                                 [pipe_log[i].consensus EXCEPT
                                     !.strength = strength,
                                     !.majority_resolution = majority])
               IN  result.is_contradiction /\ result.severity = "LOW"
        /\ \E f \in DOMAIN findings :
               /\ findings[f].row = pipe_log[i].row
               /\ findings[f].severity = "LOW"
               /\ findings[f].new_resolution = pipe_log[i].new_resolution

\* an alert closed with no resolution met a strong consensus for true_positive
C29_Witness ==
    \E i \in Unresolved :
        /\ pipe_log[i].new_resolution = None
        /\ pipe_log[i].consensus.strength = "strong"
        /\ pipe_log[i].consensus.majority_resolution = "true_positive"

\* the sum of the by_severity counts
SeverityTotal ==
    stats.by_severity["CRITICAL"] + stats.by_severity["HIGH"] + stats.by_severity["MEDIUM"]
        + stats.by_severity["LOW"] + stats.by_severity["INFO"]

\* the alerts of the day the analysis loop has been through
RowsDone == IF pipe_pc = "analyze" THEN pipe_pos - 1 ELSE Len(daily_alerts)

\* C30: when the analysis loop is over, and after each of its rounds, every
\* alert it went through is counted in exactly one of the four outcome
\* counters, by_severity sums to their number less matches_consensus, and an
\* alert has a finding exactly when its verdict is a contradiction or has
\* severity INFO
C30_CountersAddUp ==
    stats # EmptyDict =>
        /\ stats.total_processed = Len(daily_alerts)
        /\ stats.matches_consensus + stats.contradictions + stats.novel_patterns
               + stats.insufficient_data = RowsDone
        /\ SeverityTotal = RowsDone - stats.matches_consensus
        /\ Len(findings) = stats.contradictions + stats.novel_patterns
                               + stats.insufficient_data
        /\ \A i \in LogOf("detect_contradiction") :
               (\E f \in DOMAIN findings : findings[f].row = pipe_log[i].row)
                   <=> (pipe_log[i].ret.is_contradiction
                            \/ pipe_log[i].ret.severity = "INFO")
        /\ Cardinality(LogOf("detect_contradiction")) = RowsDone

\* the run is over; one alert matched the consensus and one is novel
C30_Witness ==
    /\ pipe_pc = "returned"
    /\ stats # EmptyDict
    /\ stats.matches_consensus = 1
    /\ stats.novel_patterns = 1
    /\ Len(findings) = 1

=============================================================================
